---------------------------- MODULE Spec2Model ----------------------------
(***************************************************************************)
(* Process supervisor of vscode-fastolympiccoding: the three               *)
(* WaitForProcessWorker back-ends (darwin-, win32- and                     *)
(* linux-process-monitor.cpp) and the libuv based JudgeWorker (judge.cpp). *)
(* One behaviour follows one spawn on one back-end: the JS (caller) thread *)
(* runs SpawnProcess, cancel()/kill() and the settle callbacks; the worker *)
(* thread runs Execute; the child and the clock are the environment.       *)
(* Times are in milliseconds, memory in bytes.  rlimit-wrapper.c is a      *)
(* program of its own and has a specification of its own, WrapperSpec.     *)
(***************************************************************************)
EXTENDS Integers, Sequences, FiniteSets, TLC

\* ---------------------------------------------------------------- bounds
\* The non-zero CPU-time limit a request carries (ms); 0 is "no limit".
MaxTimeoutMs == 12
\* The non-zero memory limit a request carries (MB); 0 is "no limit".
MaxMemoryLimitMB == 1
\* How many times the caller invokes cancel() / kill().
MaxCancels == 2
\* The largest exit status a child returns on its own.
MaxExitCode == 1
\* The longest limit argument rlimit-wrapper is started with (characters).
MaxArgLen == 2
\* The timeout arguments the judge's RLIMIT_CPU is computed for: the JS
\* numbers -MaxTimeoutArg .. MaxTimeoutArg.
MaxTimeoutArg == 1001
\* How many writeStdin calls the caller makes.
MaxStdinChunks == 2
\* How many chunks the child writes to its stdout.
MaxStdoutChunks == 2

\* ------------------------------------------------------ program constants
\* darwin: long intervalMs = 10
intervalMs == 10
\* win32: DWORD slice = 10
slice == 10
\* linux: pollTimeout capped at 100 ms
LinuxPollCapMs == 100
\* linux fallback: pollIntervalUs = 50000
LinuxFallbackSleepMs == 50
\* memoryLimitMB * 1024.0 * 1024.0
BYTES_PER_MEGABYTE == 1048576
\* /proc/<pid>/status reports kilobytes
BytesPerKB == 1024
SIGKILL == 9
SIGSEGV == 11
SIGXCPU == 24
\* TerminateProcess(hProcess, 1)
TerminateExitCode == 1
\* exitCode = 0xC0000044 seen through static_cast<int>
STATUS_QUOTA_EXCEEDED == -1073741756
\* exitCode = 0x705
QUOTA_EXIT_0x705 == 1797
\* static_cast<unsigned int>(exitCode_) >= 0xC0000000 seen through int
NtErrorFloor == -1073741824
\* an access violation, 0xC0000005 seen through static_cast<int>
STATUS_ACCESS_VIOLATION == -1073741819
MonitorBackends == {"darwin", "win32", "linux"}
Backends == MonitorBackends \cup {"judge"}

Min(a, b) == IF a < b THEN a ELSE b
Max(a, b) == IF a > b THEN a ELSE b

\* The clock saturates here: past every threshold the code compares it to.
MaxClock == 2 * MaxTimeoutMs + 2
TimeoutsMs == {0, MaxTimeoutMs}
MemoryLimitsMB == {0, MaxMemoryLimitMB}
\* CPU time a child may have consumed (ms): none, the limit, past the limit.
CpuLevels == {0, MaxTimeoutMs, MaxTimeoutMs + 1}
\* Resident memory of a child (bytes): little, the limit, past the limit.
MemLevels == {0, MaxMemoryLimitMB * BYTES_PER_MEGABYTE,
              MaxMemoryLimitMB * BYTES_PER_MEGABYTE + BytesPerKB}
ExitCodes == 0..MaxExitCode
Signals == {SIGKILL, SIGSEGV, SIGXCPU}

VARIABLES
  platform,      \* which back-end was built
  timeoutMs_,    \* WaitForProcessWorker::timeoutMs_ / ctx->timeoutMs
  memoryLimitMB, \* SpawnProcess: info[4], the request's memory limit
  memoryLimitBytes_, \* WaitForProcessWorker::memoryLimitBytes_
  mainPc,        \* the JS thread in SpawnProcess: "init", "returned", "threw.."
  onSpawnCalls,  \* how many times the onSpawn / spawnCallback JS function ran
  child,         \* the OS process: state, exit status, usage
  clock,         \* wall-clock ms since the worker's startTime
  timer,         \* what is left of the current timed kernel wait
  pc,            \* the worker thread's position in Execute
  closed,        \* SharedStopState::closed
  kq,            \* darwin SharedStopState::kq and what is registered/pending
  hStopEvent,    \* win32 SharedStopState::hStopEvent: "null", "unset", "set"
  timedOut_, memoryLimitExceeded_, stopped_, processExited,
  exitCode_, termSignal_, errorMsg_, elapsedMs_, peakMemoryBytes_,
  pidfd,         \* linux: "none", "open", "closed"
  hProcess_,     \* win32 hProcess_: "null", "open", "closed"
  hJob,          \* win32 job object: "none", "open", "closed"
  settled,       \* [resolved |-> n, rejected |-> n]: deferred_ / Callback()
  delivered,     \* the Completion Record handed to the caller, or NoRecord
  cancelCalls,   \* cancel() / kill() calls made so far
  cancelRet,     \* what the last cancel() returned to JS, "none" before
  signalStopRet, \* what the last SignalStop returned: "none", "true", "false"
  cancelBeforeDone, \* a cancel() was made before the worker had finished
  killCause,     \* why the monitor decided to terminate the child
  jpc,           \* JudgeWorker::Execute position
  ctx,           \* judge.cpp ProcessContext (flags and handle counters)
  result,        \* judge.cpp ProcessContext::result (ProcessResult)
  stdinState,    \* judge.cpp StdinState
  spawnCb,       \* spawnCallback: "held", "queued", "delivered", "released"
  cancelFn,      \* the JS cancel function and the SharedStopState reference
                 \* its lambda holds: "none", "live", "collected"
  wrapper,       \* the rlimit-wrapper process: argv, position, limits set
  rlim,          \* judge.cpp: ctx->timeoutMs in full width and the RLIMIT_CPU
                 \* that Execute hands to prlimit
  io             \* judge.cpp: the stdin, stdout and stderr pipes, the chunks
                 \* in flight and the handles being closed

envVars == <<child, clock, timer>>
\* What a monitored run never changes: the request, and the wrapper process.
reqVars == <<platform, timeoutMs_, memoryLimitMB, memoryLimitBytes_, wrapper,
             rlim, io>>
stopVars == <<closed, kq, hStopEvent>>
flagVars == <<timedOut_, memoryLimitExceeded_, stopped_, processExited,
              exitCode_, termSignal_, errorMsg_, elapsedMs_,
              peakMemoryBytes_, pidfd, hProcess_, hJob, killCause>>
callerVars == <<mainPc, onSpawnCalls, settled, delivered, cancelCalls,
                cancelRet, signalStopRet, cancelBeforeDone>>
judgeVars == <<jpc, ctx, result, stdinState, spawnCb>>
vars == <<reqVars, envVars, stopVars, flagVars, callerVars, judgeVars, pc,
          cancelFn>>

NoRecord == [none |-> TRUE]
NoChild == [state |-> "none", kind |-> "none", code |-> 0, sig |-> 0,
            cpu |-> 0, rss |-> 0, peak |-> 0]

\* SpawnProcess: static_cast<uint64_t>(memoryLimitMB * 1024.0 * 1024.0)
ToMemoryLimitBytes(mb) == mb * BYTES_PER_MEGABYTE

\* struct ProcessContext, as default-initialised; asyncPending is the
\* uv_async_t's pending flag, timeoutFired the one-shot uv_timer_t being spent
NoCtx == [processExited |-> FALSE, stdinClosed |-> FALSE,
          stdoutClosed |-> FALSE, stderrClosed |-> FALSE,
          timeoutTimerActive |-> FALSE, memoryTimerActive |-> FALSE,
          stdinAsyncActive |-> FALSE, closedHandles |-> 0, totalHandles |-> 0,
          asyncPending |-> FALSE, timeoutFired |-> FALSE]
\* struct ProcessResult, as default-initialised
NoResult == [exitCode |-> 0, termSignal |-> 0, elapsedMs |-> 0,
             maxMemoryBytes |-> 0, timedOut |-> FALSE,
             memoryLimitExceeded |-> FALSE, spawnError |-> FALSE]
\* struct StdinState, as default-initialised
NoStdinState == [buffer |-> <<>>, closed |-> FALSE, killRequested |-> FALSE,
                 workerActive |-> TRUE, stdinAsync |-> FALSE]

\* No rlimit-wrapper process.
NoWrapper == [pc |-> "none"]
\* No RLIMIT_CPU computation under way.
NoRlim == [pc |-> "none"]
\* The pipes are not followed.
NoIo == [pc |-> "none"]

\* The worker's members hold their constructor values, nothing has run.
Constructed ==
  /\ mainPc = "init"
  /\ onSpawnCalls = 0
  /\ child = NoChild
  /\ clock = 0
  /\ timer = 0
  /\ pc = "idle"
  /\ closed = FALSE
  /\ kq = [valid |-> FALSE, procAdded |-> FALSE, userAdded |-> FALSE,
           events |-> <<>>]
  /\ hStopEvent = "null"
  /\ timedOut_ = FALSE
  /\ memoryLimitExceeded_ = FALSE
  /\ stopped_ = FALSE
  /\ processExited = FALSE
  /\ exitCode_ = 0
  /\ termSignal_ = 0
  /\ errorMsg_ = ""
  /\ elapsedMs_ = 0
  /\ peakMemoryBytes_ = 0
  /\ pidfd = "none"
  /\ hProcess_ = "null"
  /\ hJob = "none"
  /\ settled = [resolved |-> 0, rejected |-> 0]
  /\ delivered = NoRecord
  /\ cancelCalls = 0
  /\ cancelRet = "none"
  /\ signalStopRet = "none"
  /\ cancelBeforeDone = FALSE
  /\ killCause = "none"
  /\ jpc = "idle"
  /\ ctx = NoCtx
  /\ result = NoResult
  /\ stdinState = NoStdinState
  /\ spawnCb = "held"
  /\ cancelFn = "none"

\* The state before the caller invokes spawn: the request is chosen, nothing
\* has run.
Init ==
  /\ platform \in Backends
  /\ timeoutMs_ \in TimeoutsMs
  /\ memoryLimitMB \in MemoryLimitsMB
  /\ memoryLimitBytes_ = ToMemoryLimitBytes(memoryLimitMB)
  /\ wrapper = NoWrapper
  /\ rlim = NoRlim
  /\ io = NoIo
  /\ Constructed

\* A freshly launched child.
LiveChild == [NoChild EXCEPT !.state = "running"]

\* ---------------------------------------------------------- environment
\* kill(pid_, SIGKILL) / uv_process_kill(.., SIGKILL): a live child dies by
\* the signal; a zombie or an already reaped pid is left as it is.
\* A kill(pid_, SIGKILL) that is not issued.
KillNotIssued(c) == c

Killed(c) ==
  IF c.state = "running"
  THEN [c EXCEPT !.state = "zombie", !.kind = "signal", !.sig = SIGKILL]
  ELSE c

\* TerminateProcess(hProcess, 1): a live process ends with exit code 1.
Terminated(c) ==
  IF c.state = "running"
  THEN [c EXCEPT !.state = "zombie", !.kind = "exit",
                 !.code = TerminateExitCode]
  ELSE c

\* The kqueue learns of the child's death when NOTE_EXIT is registered:
\* active knotes are handed out in the order in which they became active.
KqAfterDeath(k, before, after) ==
  IF before.state = "running" /\ after.state # "running" /\ k.procAdded
     /\ ~(\E i \in 1..Len(k.events) : k.events[i] = "PROC")
  THEN [k EXCEPT !.events = Append(k.events, "PROC")]
  ELSE k

\* The worker (monitor or judge) has handed its outcome to the caller.
Finished == pc = "done" \/ jpc = "done"

\* The child computes: its CPU time never decreases, its resident memory
\* moves freely, the high-water mark follows.
ChildRun ==
  /\ child.state = "running" /\ ~Finished
  /\ \E c \in CpuLevels, m \in MemLevels :
       /\ c >= child.cpu
       /\ <<c, m>> # <<child.cpu, child.rss>>
       /\ child' = [child EXCEPT !.cpu = c, !.rss = m,
                                 !.peak = Max(child.peak, m)]
  /\ UNCHANGED <<reqVars, cancelFn, clock, timer, stopVars, flagVars,
                 callerVars, judgeVars, pc>>

\* The child returns from main / calls exit(k).
ChildExit ==
  /\ child.state = "running" /\ ~Finished
  /\ \E k \in ExitCodes :
       child' = [child EXCEPT !.state = "zombie", !.kind = "exit", !.code = k]
  /\ kq' = KqAfterDeath(kq, child, child')
  /\ UNCHANGED <<reqVars, cancelFn, clock, timer, closed, hStopEvent, flagVars,
                 callerVars, judgeVars, pc>>

\* POSIX: something outside the monitor signals the child (the OOM killer,
\* a fault, a CPU rlimit set by a wrapper).
ChildSignalled ==
  /\ platform # "win32"
  /\ child.state = "running" /\ ~Finished
  /\ \E s \in Signals :
       child' = [child EXCEPT !.state = "zombie", !.kind = "signal", !.sig = s]
  /\ kq' = KqAfterDeath(kq, child, child')
  /\ UNCHANGED <<reqVars, cancelFn, clock, timer, closed, hStopEvent, flagVars,
                 callerVars, judgeVars, pc>>

\* Windows: the process ends with an NTSTATUS code: a crash, or the job
\* object ending it for a quota (only once it is in a job with a limit).
ChildCrashed ==
  /\ platform = "win32"
  /\ child.state = "running" /\ ~Finished
  /\ \E code \in {STATUS_ACCESS_VIOLATION, STATUS_QUOTA_EXCEEDED,
                  QUOTA_EXIT_0x705} :
       /\ code # STATUS_ACCESS_VIOLATION =>
            /\ hJob = "open"
            /\ \/ timeoutMs_ > 0 /\ child.cpu >= timeoutMs_
               \/ memoryLimitBytes_ > 0 /\ child.peak >= memoryLimitBytes_
       /\ child' = [child EXCEPT !.state = "zombie", !.kind = "exit",
                                 !.code = code]
  /\ UNCHANGED <<reqVars, cancelFn, clock, timer, stopVars, flagVars,
                 callerVars, judgeVars, pc>>

\* POSIX: the zombie is collected by somebody else's wait (the host's own
\* SIGCHLD handling owns the pid the Linux monitor is given).
ReapedElsewhere ==
  /\ platform \in {"darwin", "linux"}
  /\ child.state = "zombie" /\ ~Finished
  /\ child' = [child EXCEPT !.state = "reaped"]
  /\ UNCHANGED <<reqVars, cancelFn, clock, timer, stopVars, flagVars,
                 callerVars, judgeVars, pc>>

\* How far the clock moves while no timed wait is pending.
IdleStepMs == MaxTimeoutMs

\* Time passes while the worker is in its loop: a timed wait runs to its end;
\* outside a timed wait the clock moves by IdleStepMs.
Tick ==
  /\ pc \in {"loop", "wait"} \/ jpc = "run"
  /\ clock < MaxClock \/ timer > 0
  /\ clock' = Min(clock + (IF timer > 0 THEN timer ELSE IdleStepMs), MaxClock)
  /\ timer' = 0
  /\ UNCHANGED <<reqVars, cancelFn, child, stopVars, flagVars, callerVars,
                 judgeVars, pc>>

\* ------------------------------------------------- SharedStopState (4.6)
\* A SignalStop whose every trigger queues a wake-up of its own.
DarwinSignalStopNoCoalesce(cl, k) ==
  IF cl \/ ~k.valid \/ ~k.userAdded
  THEN [ret |-> FALSE, kq |-> k]
  ELSE [ret |-> TRUE, kq |-> [k EXCEPT !.events = Append(k.events, "USER")]]

\* darwin SignalStop: what it returns and what it leaves in the kqueue.
\* kevent(NOTE_TRIGGER) on an EVFILT_USER event that was never added fails
\* with ENOENT; a trigger on an already triggered event stays one event.
DarwinSignalStop(cl, k) ==
  IF cl \/ ~k.valid
  THEN [ret |-> FALSE, kq |-> k]
  ELSE IF ~k.userAdded
       THEN [ret |-> FALSE, kq |-> k]
       ELSE [ret |-> TRUE,
             kq |-> IF \E i \in 1..Len(k.events) : k.events[i] = "USER"
                    THEN k
                    ELSE [k EXCEPT !.events = Append(k.events, "USER")]]

\* win32 SignalStop: SetEvent on the manual-reset event.
Win32SignalStop(cl, ev) ==
  IF cl \/ ev = "null"
  THEN [ret |-> FALSE, ev |-> ev]
  ELSE [ret |-> TRUE, ev |-> "set"]

\* SharedStopState::Close, called by the worker after its loop.
Close(cl) == TRUE

\* The worker has left its loop (or never entered it) for good.
LeftWatching == pc \in {"close", "reap", "executed", "done"}

\* The cancel lambda calls SignalStop as a statement and returns nothing:
\* JS sees undefined whatever SignalStop returned.
CancelLambda(signalled) == "undefined"

\* The JS cancel function of the returned handle.
Cancel ==
  /\ platform \in {"darwin", "win32"}
  /\ mainPc = "returned" /\ cancelFn = "live"
  /\ cancelCalls < MaxCancels
  /\ cancelCalls' = cancelCalls + 1
  /\ cancelBeforeDone' = (cancelBeforeDone \/ pc \notin {"executed", "done"})
  /\ IF platform = "darwin"
     THEN LET r == DarwinSignalStop(closed, kq) IN
          /\ kq' = r.kq
          /\ signalStopRet' = (IF r.ret THEN "true" ELSE "false")
          /\ cancelRet' = CancelLambda(r.ret)
          /\ UNCHANGED hStopEvent
     ELSE LET r == Win32SignalStop(closed, hStopEvent) IN
          /\ hStopEvent' = r.ev
          /\ signalStopRet' = (IF r.ret THEN "true" ELSE "false")
          /\ cancelRet' = CancelLambda(r.ret)
          /\ UNCHANGED kq
  /\ UNCHANGED <<reqVars, cancelFn, envVars, closed, flagVars, mainPc,
                 onSpawnCalls, settled, delivered, judgeVars, pc>>

\* ------------------------------------------------------ SpawnProcess (JS)
\* darwin SpawnProcess: argument check, pipe, fork, the child's pre-exec
\* error report, onSpawn, SharedStopState, worker->Queue().
DarwinSpawnProcess ==
  /\ platform = "darwin" /\ mainPc = "init"
  /\ \/ /\ \E e \in {"threwInvalidRequest", "threwSpawnFailed"} : mainPc' = e
        /\ UNCHANGED <<onSpawnCalls, child, kq, pc, cancelFn>>
     \/ /\ mainPc' = "returned"
        /\ onSpawnCalls' = onSpawnCalls + 1
        /\ child' = LiveChild
        /\ \E ok \in BOOLEAN : kq' = [kq EXCEPT !.valid = ok]
        /\ cancelFn' = "live"
        /\ pc' = "start"
  /\ UNCHANGED <<reqVars, clock, timer, closed, hStopEvent, flagVars, settled,
                 delivered, cancelCalls, cancelRet, signalStopRet,
                 cancelBeforeDone,
                 judgeVars>>

\* win32 SpawnProcess: argument check, named pipes, CreateProcessW,
\* DuplicateHandle, onSpawn, SharedStopState (CreateEvent), worker->Queue().
Win32SpawnProcess ==
  /\ platform = "win32" /\ mainPc = "init"
  /\ \/ /\ \E e \in {"threwInvalidRequest", "threwSpawnFailed"} : mainPc' = e
        /\ UNCHANGED <<onSpawnCalls, child, hStopEvent, hProcess_, pc,
                       cancelFn>>
     \/ /\ mainPc' = "returned"
        /\ onSpawnCalls' = onSpawnCalls + 1
        /\ child' = LiveChild
        /\ \E h \in {"null", "open"} : hProcess_' = h
        /\ \E e \in {"null", "unset"} : hStopEvent' = e
        /\ cancelFn' = "live"
        /\ pc' = "start"
  /\ UNCHANGED <<reqVars, clock, timer, closed, kq, timedOut_,
                 memoryLimitExceeded_, stopped_, processExited, exitCode_,
                 termSignal_, errorMsg_, elapsedMs_, peakMemoryBytes_, pidfd,
                 hJob, killCause, settled, delivered, cancelCalls, cancelRet,
                 signalStopRet, cancelBeforeDone, judgeVars>>

\* linux WaitForProcess: argument checks, then worker->Queue() for a pid
\* somebody else spawned.  There is no onSpawn and no cancel.
LinuxWaitForProcess ==
  /\ platform = "linux" /\ mainPc = "init"
  /\ \/ /\ mainPc' = "threwInvalidRequest"
        /\ UNCHANGED <<child, pc>>
     \/ /\ mainPc' = "returned"
        /\ child' = LiveChild
        /\ pc' = "start"
  /\ UNCHANGED <<reqVars, cancelFn, clock, timer, stopVars, flagVars,
                 onSpawnCalls, settled, delivered, cancelCalls, cancelRet,
                 signalStopRet, cancelBeforeDone, judgeVars>>
\* ------------------------------------------- darwin WaitForProcessWorker
\* The timeout handed to kevent: 10 ms, cut to what is left of the CPU limit
\* counted in wall-clock time, 0 once that has run out.
DarwinWaitMs(t, elapsed) ==
  IF t > 0
  THEN IF t - elapsed <= 0 THEN 0 ELSE Min(intervalMs, t - elapsed)
  ELSE intervalMs

\* A poll tick that lacks the wall-clock safety net.
DarwinPollDecisionNoWall(c, t, m, elapsed) ==
  IF (m > 0 \/ t > 0) /\ c.state = "running" /\ m > 0 /\ c.rss > m
  THEN "memory"
  ELSE IF (m > 0 \/ t > 0) /\ c.state = "running" /\ t > 0 /\ c.cpu > t
  THEN "cpu"
  ELSE "none"

\* What a poll tick (nev == 0) decides: GetProcessStats succeeds for a live
\* child only; memory is looked at first, then CPU time, then the wall clock.
DarwinPollDecision(c, t, m, elapsed) ==
  IF (m > 0 \/ t > 0) /\ c.state = "running" /\ m > 0 /\ c.rss > m
  THEN "memory"
  ELSE IF (m > 0 \/ t > 0) /\ c.state = "running" /\ t > 0 /\ c.cpu > t
  THEN "cpu"
  ELSE IF t > 0 /\ elapsed > t * 2
  THEN "wall"
  ELSE "none"

\* Execute up to the loop: the shared kqueue must exist, then both events
\* are registered; ESRCH (the child is already gone) skips the wait.
DarwinStart ==
  /\ platform = "darwin" /\ pc = "start"
  /\ \/ /\ ~kq.valid
        /\ errorMsg_' = "Failed to create kqueue (in shared state)"
        /\ pc' = "executed"
        /\ UNCHANGED <<kq, clock>>
     \/ /\ kq.valid /\ child.state # "running"
        /\ pc' = "close"
        /\ UNCHANGED <<kq, errorMsg_, clock>>
     \/ /\ kq.valid
        /\ errorMsg_' = "Failed to register events with kqueue: "
        /\ pc' = "executed"
        /\ UNCHANGED <<kq, clock>>
     \/ /\ kq.valid /\ child.state = "running"
        /\ kq' = [kq EXCEPT !.procAdded = TRUE, !.userAdded = TRUE]
        /\ clock' = 0
        /\ pc' = "loop"
        /\ UNCHANGED errorMsg_
  /\ UNCHANGED <<reqVars, cancelFn, child, timer, closed, hStopEvent,
                 timedOut_, memoryLimitExceeded_, stopped_, processExited,
                 exitCode_, termSignal_, elapsedMs_, peakMemoryBytes_, pidfd,
                 hProcess_, hJob, killCause, callerVars, judgeVars>>

\* Top of the while (true): the wait time is computed and kevent is entered.
DarwinArm ==
  /\ platform = "darwin" /\ pc = "loop"
  /\ timer' = DarwinWaitMs(timeoutMs_, clock)
  /\ pc' = "wait"
  /\ UNCHANGED <<reqVars, cancelFn, child, clock, stopVars, flagVars,
                 callerVars, judgeVars>>

\* kevent returns: an error, the first pending event, or the timeout, and the
\* rest of the loop body runs.
DarwinWake ==
  /\ platform = "darwin" /\ pc = "wait"
  /\ \/ \* nev == -1 with EINTR or ESRCH: the loop goes round (only a
        \* wait that blocks can be interrupted)
        /\ kq.events = <<>> /\ timer > 0
        /\ pc' = "loop"
        /\ UNCHANGED <<child, kq, timedOut_, memoryLimitExceeded_, stopped_,
                       errorMsg_, killCause>>
     \/ \* nev == -1 with another errno: return
        /\ errorMsg_' = "kevent failed: "
        /\ pc' = "executed"
        /\ UNCHANGED <<child, kq, timedOut_, memoryLimitExceeded_, stopped_,
                       killCause>>
     \/ \* EVFILT_USER: stop signal
        /\ kq.events # <<>> /\ Head(kq.events) = "USER"
        /\ stopped_' = TRUE
        /\ child' = Killed(child)
        /\ kq' = KqAfterDeath([kq EXCEPT !.events = Tail(kq.events)],
                              child, child')
        /\ killCause' = "cancel"
        /\ pc' = "close"
        /\ UNCHANGED <<timedOut_, memoryLimitExceeded_, errorMsg_>>
     \/ \* EVFILT_PROC: process exited
        /\ kq.events # <<>> /\ Head(kq.events) = "PROC"
        /\ kq' = [kq EXCEPT !.events = Tail(kq.events)]
        /\ pc' = "close"
        /\ UNCHANGED <<child, timedOut_, memoryLimitExceeded_, stopped_,
                       errorMsg_, killCause>>
     \/ \* nev == 0: timeout or interval wake-up
        /\ kq.events = <<>> /\ timer = 0
        /\ LET d == DarwinPollDecision(child, timeoutMs_, memoryLimitBytes_,
                                       clock) IN
           /\ memoryLimitExceeded_' = (memoryLimitExceeded_ \/ d = "memory")
           /\ timedOut_' = (timedOut_ \/ d \in {"cpu", "wall"})
           /\ child' = (IF d = "none" THEN child ELSE Killed(child))
           /\ kq' = KqAfterDeath(kq, child, child')
           /\ killCause' = (IF d = "none" THEN killCause ELSE d)
           /\ pc' = (IF d = "none" THEN "loop" ELSE "close")
        /\ UNCHANGED <<stopped_, errorMsg_>>
  /\ timer' = 0
  /\ UNCHANGED <<reqVars, cancelFn, clock, closed, hStopEvent, processExited,
                 exitCode_, termSignal_, elapsedMs_, peakMemoryBytes_, pidfd,
                 hProcess_, hJob, callerVars, judgeVars>>

\* sharedState_->Close() after the loop.
DarwinClose ==
  /\ platform = "darwin" /\ pc = "close"
  /\ closed' = Close(closed)
  /\ pc' = "reap"
  /\ UNCHANGED <<reqVars, cancelFn, envVars, kq, hStopEvent, flagVars,
                 callerVars, judgeVars>>

\* What wait4 hands back: the zombie's status and rusage, or, when the call
\* fails (nothing to reap), status 0 and the zeroed rusage.
\* A wait4 that never finds the child.
Wait4FindsNothing(c) ==
  [ok |-> FALSE, kind |-> "exit", code |-> 0, sig |-> 0,
   cpuMs |-> 0, maxrss |-> 0]

Wait4(c) ==
  IF c.state = "zombie"
  THEN [ok |-> TRUE, kind |-> c.kind, code |-> c.code, sig |-> c.sig,
        cpuMs |-> c.cpu, maxrss |-> c.peak]
  ELSE [ok |-> FALSE, kind |-> "exit", code |-> 0, sig |-> 0,
        cpuMs |-> 0, maxrss |-> 0]

\* darwin post-mortem: elapsed CPU and peak memory from rusage, the two
\* post-mortem limit checks, then the analysis of the exit status.
DarwinPostMortem(w, t, m, to, mle) ==
  [elapsedMs |-> w.cpuMs,
   peakMemoryBytes |-> w.maxrss,
   timedOut |-> (to \/ (t > 0 /\ w.cpuMs > t)
                    \/ (w.kind = "signal" /\ w.sig = SIGXCPU)),
   memoryLimitExceeded |-> (mle \/ (m > 0 /\ w.maxrss > m)),
   termSignal |-> (IF w.kind = "signal" THEN w.sig ELSE 0),
   exitCode |-> (IF w.kind = "signal" THEN 128 + w.sig ELSE w.code)]

\* The redundant kill, the blocking wait4 and the classification.  wait4
\* returns once the child is no longer running.
DarwinReap ==
  /\ platform = "darwin" /\ pc = "reap"
  /\ LET c1 == IF stopped_ THEN Killed(child) ELSE child
         w == Wait4(c1)
         r == DarwinPostMortem(w, timeoutMs_, memoryLimitBytes_, timedOut_,
                               memoryLimitExceeded_) IN
     /\ c1.state # "running"
     /\ child' = (IF w.ok THEN [c1 EXCEPT !.state = "reaped"] ELSE c1)
     /\ elapsedMs_' = r.elapsedMs
     /\ peakMemoryBytes_' = r.peakMemoryBytes
     /\ timedOut_' = r.timedOut
     /\ memoryLimitExceeded_' = r.memoryLimitExceeded
     /\ termSignal_' = r.termSignal
     /\ exitCode_' = r.exitCode
  /\ pc' = "executed"
  /\ UNCHANGED <<reqVars, cancelFn, clock, timer, stopVars, stopped_,
                 processExited, errorMsg_, pidfd, hProcess_, hJob, killCause,
                 callerVars, judgeVars>>

\* -------------------------------------------- win32 WaitForProcessWorker
\* The wall-clock bound of the loop: timeoutMs_ * 2.
Win32WallLimit(t) == t * 2

\* The loop's first check: elapsedWall >= timeoutMs_ * 2.
Win32WallExceeded(t, elapsedWall) == t > 0 /\ elapsedWall >= Win32WallLimit(t)

\* waitMillis: the 10 ms slice, cut to what is left of the wall-clock bound.
Win32WaitMillis(t, elapsedWall) ==
  IF t > 0 /\ Win32WallLimit(t) - elapsedWall < slice
  THEN Win32WallLimit(t) - elapsedWall
  ELSE slice

\* WAIT_TIMEOUT: job accounting, totalTimeMs > timeoutMsLong.
Win32CpuExceeded(t, cpuMs) == t > 0 /\ cpuMs > t

\* Execute up to the loop: handle checks, job object creation, limits,
\* assignment (forgiven when the process is already dead), creation time.
Win32Start ==
  /\ platform = "win32" /\ pc = "start"
  /\ \/ /\ hProcess_ = "null"
        /\ errorMsg_' = "Invalid process handle"
        /\ pc' = "executed"
        /\ UNCHANGED <<hJob, clock>>
     \/ /\ hProcess_ # "null" /\ hStopEvent = "null"
        /\ errorMsg_' = "Failed to create stop event (in shared state): "
        /\ pc' = "executed"
        /\ UNCHANGED <<hJob, clock>>
     \/ /\ hProcess_ # "null" /\ hStopEvent # "null"
        /\ errorMsg_' = "Failed to create job object: "
        /\ pc' = "executed"
        /\ UNCHANGED <<hJob, clock>>
     \/ /\ hProcess_ # "null" /\ hStopEvent # "null"
        /\ \E msg \in {"Failed to set job object limits: ",
                       "Failed to get initial process times: "} :
             errorMsg_' = msg
        /\ hJob' = "closed"
        /\ pc' = "executed"
        /\ UNCHANGED clock
     \/ /\ hProcess_ # "null" /\ hStopEvent # "null"
        /\ child.state = "running"
        /\ errorMsg_' = "Failed to assign process to job object: "
        /\ hJob' = "closed"
        /\ pc' = "executed"
        /\ UNCHANGED clock
     \/ /\ hProcess_ # "null" /\ hStopEvent # "null"
        /\ hJob' = "open"
        /\ clock' = 0
        /\ pc' = "loop"
        /\ UNCHANGED errorMsg_
  /\ UNCHANGED <<reqVars, cancelFn, child, timer, stopVars, timedOut_,
                 memoryLimitExceeded_, stopped_, processExited, exitCode_,
                 termSignal_, elapsedMs_, peakMemoryBytes_, pidfd, hProcess_,
                 killCause, callerVars, judgeVars>>

\* Top of while (!processExited && !stopped_): the wall-clock check, then
\* the wait time and WaitForMultipleObjects is entered.
Win32LoopTop ==
  /\ platform = "win32" /\ pc = "loop"
  /\ IF Win32WallExceeded(timeoutMs_, clock)
     THEN /\ timedOut_' = TRUE
          /\ stopped_' = TRUE
          /\ killCause' = "wall"
          /\ pc' = "close"
          /\ UNCHANGED timer
     ELSE /\ timer' = Win32WaitMillis(timeoutMs_, clock)
          /\ pc' = "wait"
          /\ UNCHANGED <<timedOut_, stopped_, killCause>>
  /\ UNCHANGED <<reqVars, cancelFn, child, clock, stopVars,
                 memoryLimitExceeded_, processExited, exitCode_, termSignal_,
                 errorMsg_, elapsedMs_, peakMemoryBytes_, pidfd, hProcess_,
                 hJob, callerVars, judgeVars>>

\* WaitForMultipleObjects({hProcess, hStopEvent}, FALSE, waitMillis): the
\* lowest signalled index wins, a timeout runs the CPU check.
Win32Wake ==
  /\ platform = "win32" /\ pc = "wait"
  /\ \/ \* WAIT_OBJECT_0: process exited
        /\ child.state # "running"
        /\ processExited' = TRUE
        /\ pc' = "close"
        /\ UNCHANGED <<timedOut_, stopped_, errorMsg_, hJob, killCause>>
     \/ \* WAIT_OBJECT_0 + 1: external stop
        /\ child.state = "running" /\ hStopEvent = "set"
        /\ stopped_' = TRUE
        /\ killCause' = "cancel"
        /\ pc' = "close"
        /\ UNCHANGED <<timedOut_, processExited, errorMsg_, hJob>>
     \/ \* WAIT_TIMEOUT
        /\ child.state = "running" /\ hStopEvent # "set" /\ timer = 0
        /\ IF Win32CpuExceeded(timeoutMs_, child.cpu)
           THEN /\ timedOut_' = TRUE
                /\ stopped_' = TRUE
                /\ killCause' = "cpu"
                /\ pc' = "close"
           ELSE /\ pc' = "loop"
                /\ UNCHANGED <<timedOut_, stopped_, killCause>>
        /\ UNCHANGED <<processExited, errorMsg_, hJob>>
     \/ \* WAIT_FAILED
        /\ errorMsg_' = "WaitForMultipleObjects failed: "
        /\ hJob' = "closed"
        /\ pc' = "executed"
        /\ UNCHANGED <<timedOut_, stopped_, processExited, killCause>>
  /\ timer' = 0
  /\ UNCHANGED <<reqVars, cancelFn, child, clock, stopVars,
                 memoryLimitExceeded_, exitCode_, termSignal_, elapsedMs_,
                 peakMemoryBytes_, pidfd, hProcess_, callerVars, judgeVars>>

\* sharedState_->Close() after the loop.
Win32Close ==
  /\ platform = "win32" /\ pc = "close"
  /\ closed' = Close(closed)
  /\ pc' = "reap"
  /\ UNCHANGED <<reqVars, cancelFn, envVars, kq, hStopEvent, flagVars,
                 callerVars, judgeVars>>

\* win32 classification of the final exit code: the two quota codes are
\* split by user time against 95% of the limit; any other non-zero code
\* with a memory limit is a memory breach when the peak reached 90% of it.
Win32PostMortem(code, cpuMs, peak, t, m, to, mle) ==
  [timedOut |-> (to \/ (code \in {STATUS_QUOTA_EXCEEDED, QUOTA_EXIT_0x705}
                         /\ t > 0 /\ cpuMs * 100 >= t * 95)),
   memoryLimitExceeded |->
     (mle \/ (code \in {STATUS_QUOTA_EXCEEDED, QUOTA_EXIT_0x705}
               /\ ~(t > 0 /\ cpuMs * 100 >= t * 95))
          \/ (code \notin {STATUS_QUOTA_EXCEEDED, QUOTA_EXIT_0x705}
               /\ code # 0 /\ m > 0 /\ peak * 10 >= m * 9))]

\* TerminateProcess when the loop asked for it, the wait for the death,
\* the final queries (each may fail), the classification, CloseHandle(hJob).
Win32Reap ==
  /\ platform = "win32" /\ pc = "reap"
  /\ LET c1 == IF stopped_ /\ ~processExited THEN Terminated(child)
               ELSE child IN
     /\ c1.state # "running"
     /\ child' = c1
     /\ \/ /\ \E msg \in {"Failed to get final process times: ",
                          "Failed to get exit code: "} : errorMsg_' = msg
           /\ peakMemoryBytes_' = c1.peak
           /\ UNCHANGED <<exitCode_, timedOut_, memoryLimitExceeded_,
                          elapsedMs_>>
        \/ /\ LET r == Win32PostMortem(c1.code, c1.cpu, c1.peak, timeoutMs_,
                                       memoryLimitBytes_, timedOut_,
                                       memoryLimitExceeded_) IN
              /\ timedOut_' = r.timedOut
              /\ memoryLimitExceeded_' = r.memoryLimitExceeded
           /\ peakMemoryBytes_' = c1.peak
           /\ exitCode_' = c1.code
           /\ elapsedMs_' = c1.cpu
           /\ UNCHANGED errorMsg_
  /\ hJob' = "closed"
  /\ pc' = "executed"
  /\ UNCHANGED <<reqVars, cancelFn, clock, timer, stopVars, stopped_,
                 processExited, termSignal_, pidfd, hProcess_, killCause,
                 callerVars, judgeVars>>

\* -------------------------------------------- linux WaitForProcessWorker
\* Both loops: elapsedUs >= timeoutUs, one times the limit on the wall clock.
LinuxWallExceeded(t, elapsed) == t > 0 /\ elapsed >= t

\* pollTimeout: what is left of the limit, capped at 100 ms.
LinuxPollTimeout(t, elapsed) ==
  IF t > 0 THEN Min(t - elapsed, LinuxPollCapMs) ELSE LinuxPollCapMs

\* VmRSS of /proc/<pid>/status in kB, times 1024, against the limit.  The
\* line exists for a running process only.
LinuxMemoryExceeded(c, m) ==
  m > 0 /\ c.state = "running" /\ (c.rss \div BytesPerKB) * BytesPerKB > m

\* exitCode_ from the wait status.
LinuxExitCode(w) == IF w.kind = "signal" THEN 128 + w.sig ELSE w.code

\* The end of Execute after a wait4 on child c: CPU time and peak memory
\* out of rusage, the exit code out of status.  A failed wait4 leaves
\* rusage as it was on the stack (never written) and status at 0.
LinuxFinish(c) ==
  LET w == Wait4(c) IN
  /\ child' = (IF w.ok THEN [c EXCEPT !.state = "reaped"] ELSE c)
  /\ IF w.ok
     THEN /\ elapsedMs_' = w.cpuMs
          /\ peakMemoryBytes_' = (w.maxrss \div BytesPerKB) * BytesPerKB
     ELSE /\ elapsedMs_' \in CpuLevels
          /\ peakMemoryBytes_' \in MemLevels
  /\ exitCode_' = LinuxExitCode(w)
  /\ pc' = "executed"

\* Execute up to the loop: startTime, pidfd_open (absent before Linux 5.3).
LinuxStart ==
  /\ platform = "linux" /\ pc = "start"
  /\ clock' = 0
  /\ \E fd \in {"open", "none"} : pidfd' = fd
  /\ pc' = "loop"
  /\ UNCHANGED <<reqVars, cancelFn, child, timer, stopVars, timedOut_,
                 memoryLimitExceeded_, stopped_, processExited, exitCode_,
                 termSignal_, errorMsg_, elapsedMs_, peakMemoryBytes_,
                 hProcess_, hJob, killCause, callerVars, judgeVars>>

\* Top of the pidfd loop: the wall-clock check (kill and reap on a breach),
\* else poll is entered with the computed timeout.
LinuxLoopTop ==
  /\ platform = "linux" /\ pc = "loop" /\ pidfd # "none"
  /\ IF LinuxWallExceeded(timeoutMs_, clock)
     THEN /\ timedOut_' = TRUE
          /\ pidfd' = "closed"
          /\ killCause' = "wall"
          /\ processExited' = TRUE
          /\ LinuxFinish(Killed(child))
          /\ UNCHANGED timer
     ELSE /\ timer' = LinuxPollTimeout(timeoutMs_, clock)
          /\ pc' = "wait"
          /\ UNCHANGED <<child, timedOut_, pidfd, killCause, processExited,
                         elapsedMs_, peakMemoryBytes_, exitCode_>>
  /\ UNCHANGED <<reqVars, cancelFn, clock, stopVars, memoryLimitExceeded_,
                 stopped_, termSignal_, errorMsg_, hProcess_, hJob, callerVars,
                 judgeVars>>

\* poll returns and the rest of the loop body runs: POLLIN (close the pidfd,
\* wait4 WNOHANG, carry on when that did not return the pid), an error, or
\* the timeout; every path that stays in the loop runs the memory check.
\* A closed pidfd makes poll return at once without POLLIN.
LinuxWake ==
  /\ platform = "linux" /\ pc = "wait" /\ pidfd # "none"
  /\ \/ \* POLLIN and wait4 returns the pid
        /\ pidfd = "open" /\ child.state = "zombie"
        /\ pidfd' = "closed"
        /\ processExited' = TRUE
        /\ LinuxFinish(child)
        /\ UNCHANGED <<memoryLimitExceeded_, errorMsg_, killCause>>
     \/ \* POLLIN and wait4 does not return the pid
        /\ pidfd = "open" /\ child.state = "reaped"
        /\ pidfd' = "closed"
        /\ pc' = "loop"
        /\ UNCHANGED <<child, processExited, memoryLimitExceeded_, errorMsg_,
                       killCause, elapsedMs_, peakMemoryBytes_, exitCode_>>
     \/ \* pollResult == -1, errno != EINTR
        /\ pidfd' = "closed"
        /\ errorMsg_' = "poll failed: "
        /\ pc' = "executed"
        /\ UNCHANGED <<child, processExited, memoryLimitExceeded_, killCause,
                       elapsedMs_, peakMemoryBytes_, exitCode_>>
     \/ \* EINTR, the timeout, or a closed pidfd: the memory check
        /\ \/ pidfd = "closed"
           \/ child.state = "running"
        /\ IF LinuxMemoryExceeded(child, memoryLimitBytes_)
           THEN /\ memoryLimitExceeded_' = TRUE
                /\ pidfd' = "closed"
                /\ killCause' = "memory"
                /\ processExited' = TRUE
                /\ LinuxFinish(Killed(child))
           ELSE /\ pc' = "loop"
                /\ UNCHANGED <<child, pidfd, processExited,
                               memoryLimitExceeded_, killCause, elapsedMs_,
                               peakMemoryBytes_, exitCode_>>
        /\ UNCHANGED errorMsg_
  /\ timer' = 0
  /\ UNCHANGED <<reqVars, cancelFn, clock, stopVars, timedOut_, stopped_,
                 termSignal_, hProcess_, hJob, callerVars, judgeVars>>

\* One round of the fallback loop: wait4 WNOHANG, the wall-clock check, the
\* memory check, then usleep is entered.
LinuxFallbackPoll ==
  /\ platform = "linux" /\ pc = "loop" /\ pidfd = "none"
  /\ \/ \* result == -1
        /\ child.state = "reaped"
        /\ errorMsg_' = "wait4 failed: "
        /\ pc' = "executed"
        /\ UNCHANGED <<child, timer, timedOut_, memoryLimitExceeded_,
                       processExited, killCause, elapsedMs_,
                       peakMemoryBytes_, exitCode_>>
     \/ \* result == pid_
        /\ child.state = "zombie"
        /\ processExited' = TRUE
        /\ LinuxFinish(child)
        /\ UNCHANGED <<timer, timedOut_, memoryLimitExceeded_, errorMsg_,
                       killCause>>
     \/ \* still running: limits, then sleep
        /\ child.state = "running"
        /\ IF LinuxWallExceeded(timeoutMs_, clock)
           THEN /\ timedOut_' = TRUE
                /\ killCause' = "wall"
                /\ processExited' = TRUE
                /\ LinuxFinish(Killed(child))
                /\ UNCHANGED <<timer, memoryLimitExceeded_>>
           ELSE IF LinuxMemoryExceeded(child, memoryLimitBytes_)
           THEN /\ memoryLimitExceeded_' = TRUE
                /\ killCause' = "memory"
                /\ processExited' = TRUE
                /\ LinuxFinish(Killed(child))
                /\ UNCHANGED <<timer, timedOut_>>
           ELSE /\ timer' = LinuxFallbackSleepMs
                /\ pc' = "wait"
                /\ UNCHANGED <<child, timedOut_, memoryLimitExceeded_,
                               processExited, killCause, elapsedMs_,
                               peakMemoryBytes_, exitCode_>>
        /\ UNCHANGED errorMsg_
  /\ UNCHANGED <<reqVars, cancelFn, clock, stopVars, stopped_, termSignal_,
                 pidfd, hProcess_, hJob, callerVars, judgeVars>>

\* usleep(pollIntervalUs) returns.
LinuxFallbackWake ==
  /\ platform = "linux" /\ pc = "wait" /\ pidfd = "none"
  /\ timer = 0
  /\ pc' = "loop"
  /\ UNCHANGED <<reqVars, cancelFn, envVars, stopVars, flagVars, callerVars,
                 judgeVars>>

\* ------------------------------------------------------ OnOK (JS thread)
\* An OnOK whose error branch lacks the return: it rejects, then resolves.
OnOKSettlesNoReturn(err, s) ==
  IF err # ""
  THEN [s EXCEPT !.rejected = @ + 1, !.resolved = @ + 1]
  ELSE [s EXCEPT !.resolved = @ + 1]

\* The promise is rejected when errorMsg_ is set and resolved otherwise.
\* An OnOK that does not look at errorMsg_.
OnOKSettlesIgnoresError(err, s) == [s EXCEPT !.resolved = @ + 1]

OnOKSettles(err, s) ==
  IF err # ""
  THEN [s EXCEPT !.rejected = @ + 1]
  ELSE [s EXCEPT !.resolved = @ + 1]

\* The exitCode property of the result object: <<>> stands for null.
\* darwin: null when a termination signal was recorded.
DarwinExitCodeField(code, sig) == IF sig > 0 THEN <<>> ELSE <<code>>
\* win32: null for an NTSTATUS error code (>= 0xC0000000 as unsigned).
Win32ExitCodeField(code) ==
  IF code < 0 /\ code >= NtErrorFloor THEN <<>> ELSE <<code>>
\* linux: always the number.
LinuxExitCodeField(code) == <<code>>

\* The result object OnOK builds from the worker's members.
MonitorRecord ==
  [elapsedMs |-> elapsedMs_,
   peakMemoryBytes |-> peakMemoryBytes_,
   exitCode |-> (CASE platform = "darwin" ->
                        DarwinExitCodeField(exitCode_, termSignal_)
                   [] platform = "win32" -> Win32ExitCodeField(exitCode_)
                   [] OTHER -> LinuxExitCodeField(exitCode_)),
   timedOut |-> timedOut_,
   memoryLimitExceeded |-> memoryLimitExceeded_,
   stopped |-> stopped_]

\* ~WaitForProcessWorker (win32), run when AsyncWorker destroys the worker
\* right after OnOK: CloseHandle(hProcess_) unless it is NULL.
Win32DestroyWorkerLeaks(h) == h

Win32DestroyWorker(h) == IF h = "open" THEN "closed" ELSE h

\* ~SharedStopState (darwin): close(kq); kq = -1.
DarwinReleaseSharedState(k) ==
  [valid |-> FALSE, procAdded |-> FALSE, userAdded |-> FALSE, events |-> <<>>]

\* ~SharedStopState (win32): CloseHandle(hStopEvent); hStopEvent = NULL.
Win32ReleaseSharedState(ev) == "null"

\* WaitForProcessWorker::OnOK, run on the JS thread after Execute returned
\* (the workers never call SetError, so OnError never runs); AsyncWorker
\* then destroys the worker.
OnOK ==
  /\ platform \in MonitorBackends /\ pc = "executed"
  /\ settled' = OnOKSettles(errorMsg_, settled)
  /\ delivered' = (IF errorMsg_ # "" THEN delivered ELSE MonitorRecord)
  /\ hProcess_' = (IF platform = "win32" THEN Win32DestroyWorker(hProcess_)
                   ELSE hProcess_)
  /\ pc' = "done"
  /\ UNCHANGED <<reqVars, cancelFn, envVars, stopVars, timedOut_,
                 memoryLimitExceeded_, stopped_, processExited, exitCode_,
                 termSignal_, errorMsg_, elapsedMs_, peakMemoryBytes_, pidfd,
                 hJob, killCause, mainPc, onSpawnCalls, cancelCalls,
                 cancelRet, signalStopRet, cancelBeforeDone, judgeVars>>

\* The JS engine collects the cancel function after the result was yielded:
\* its lambda held the last reference to the SharedStopState, whose
\* destructor closes the kqueue (darwin) or the stop event (win32).
CollectCancel ==
  /\ cancelFn = "live" /\ pc = "done"
  /\ cancelFn' = "collected"
  /\ kq' = DarwinReleaseSharedState(kq)
  /\ hStopEvent' = Win32ReleaseSharedState(hStopEvent)
  /\ UNCHANGED <<reqVars, envVars, closed, flagVars, callerVars, judgeVars,
                 pc>>

\* ------------------------------------------------- judge.cpp (POSIX build)
\* The handle count Execute sets before uv_run: process, stdinAsync, stdin,
\* stdout, stderr, timeoutTimer, memoryTimer.
JudgeTotalHandles == 7

\* judge.cpp SpawnProcess on the JS thread: the argument checks throw, else
\* the thread-safe functions, the StdinState and the worker are created,
\* the worker is queued and the ProcessHandle is returned.
JudgeSpawnProcess ==
  /\ platform = "judge" /\ mainPc = "init"
  /\ \/ /\ mainPc' = "threwInvalidRequest"
        /\ UNCHANGED jpc
     \/ /\ mainPc' = "returned"
        /\ jpc' = "start"
  /\ UNCHANGED <<reqVars, cancelFn, envVars, stopVars, flagVars, onSpawnCalls,
                 settled, delivered, cancelCalls, cancelRet, signalStopRet,
                 cancelBeforeDone, ctx, result, stdinState, spawnCb, pc>>

\* The wall-clock timer of the POSIX build: twice the limit.
JudgeWallTimeoutMs(t) == t * 2

\* An Execute that queues the spawn callback whether uv_spawn worked or not.
FireSpawnCallbackAlways(spawned) == "queued"

\* What Execute does with the spawnCallback thread-safe function: after a
\* successful uv_spawn one call is queued for the JS thread (NonBlockingCall)
\* and the function released; after a failed one it is only released.
FireSpawnCallback(spawned) == IF spawned THEN "queued" ELSE "released"

\* JudgeWorker::Execute up to uv_run: uv_loop_new, uv_spawn (a failure is
\* recorded in result.spawnError and Execute returns normally), the timers,
\* the rlimits, the async handle is published, buffered stdin is taken, the
\* spawn callback is queued for the JS thread and released.
JudgeExecuteSpawn ==
  /\ platform = "judge" /\ jpc = "start"
  /\ \/ \* uv_loop_new failed: SetError
        /\ errorMsg_' = "Failed to create event loop"
        /\ jpc' = "executed"
        /\ UNCHANGED <<child, clock, ctx, result, stdinState, spawnCb>>
     \/ \* uv_spawn failed
        /\ result' = [result EXCEPT !.spawnError = TRUE]
        /\ spawnCb' = FireSpawnCallback(FALSE)
        /\ jpc' = "executed"
        /\ UNCHANGED <<child, clock, ctx, stdinState, errorMsg_>>
     \/ \* uv_spawn succeeded
        /\ child' = LiveChild
        /\ clock' = 0
        /\ ctx' = [ctx EXCEPT !.timeoutTimerActive = (timeoutMs_ > 0),
                              !.memoryTimerActive = TRUE,
                              !.stdinAsyncActive = TRUE,
                              !.stdinClosed = stdinState.closed,
                              !.closedHandles =
                                  (IF stdinState.closed THEN 1 ELSE 0),
                              !.totalHandles = JudgeTotalHandles]
        /\ stdinState' = [stdinState EXCEPT !.stdinAsync = TRUE,
                                            !.buffer = <<>>]
        /\ spawnCb' = FireSpawnCallback(TRUE)
        /\ jpc' = "run"
        /\ UNCHANGED <<result, errorMsg_>>
  /\ UNCHANGED <<reqVars, cancelFn, timer, stopVars, timedOut_,
                 memoryLimitExceeded_, stopped_, processExited, exitCode_,
                 termSignal_, elapsedMs_, peakMemoryBytes_, pidfd, hProcess_,
                 hJob, killCause, callerVars, pc>>

\* The JS thread runs the queued spawn callback.
JudgeSpawnCallback ==
  /\ platform = "judge" /\ spawnCb = "queued"
  /\ onSpawnCalls' = onSpawnCalls + 1
  /\ spawnCb' = "delivered"
  /\ UNCHANGED <<reqVars, cancelFn, envVars, stopVars, flagVars, mainPc,
                 settled, delivered, cancelCalls, cancelRet, signalStopRet,
                 cancelBeforeDone, jpc, ctx, result, stdinState, pc>>

\* ProcessHandle::Kill on the JS thread: killRequested is set and the async
\* handle is signalled when the worker has published it.
JudgeKill ==
  /\ platform = "judge" /\ mainPc = "returned"
  /\ cancelCalls < MaxCancels
  /\ cancelCalls' = cancelCalls + 1
  /\ cancelBeforeDone' = (cancelBeforeDone \/ jpc \notin {"executed", "done"})
  /\ IF stdinState.workerActive
     THEN /\ stdinState' = [stdinState EXCEPT !.killRequested = TRUE]
          /\ ctx' = [ctx EXCEPT !.asyncPending =
                                   (@ \/ (stdinState.stdinAsync
                                           /\ ctx.stdinAsyncActive))]
     ELSE UNCHANGED <<stdinState, ctx>>
  /\ UNCHANGED <<reqVars, cancelFn, envVars, stopVars, flagVars, mainPc,
                 onSpawnCalls, settled, delivered, cancelRet, signalStopRet,
                 jpc, result, spawnCb, pc>>

\* OnStdinAsync on the worker's loop: a kill request kills and returns,
\* else buffered data is written and stdin is closed on request.
JudgeOnStdinAsync ==
  /\ platform = "judge" /\ jpc = "run" /\ ctx.asyncPending
  /\ IF stdinState.killRequested /\ ~ctx.processExited
     THEN /\ child' = Killed(child)
          /\ killCause' = (IF child.state = "running" THEN "cancel"
                           ELSE killCause)
          /\ ctx' = [ctx EXCEPT !.asyncPending = FALSE]
     ELSE /\ ctx' = [ctx EXCEPT !.asyncPending = FALSE,
                                !.stdinClosed = (@ \/ stdinState.closed),
                                !.closedHandles =
                                   (IF stdinState.closed /\ ~ctx.stdinClosed
                                    THEN @ + 1 ELSE @)]
          /\ UNCHANGED <<child, killCause>>
  /\ stdinState' = [stdinState EXCEPT !.buffer = <<>>]
  /\ UNCHANGED <<reqVars, cancelFn, clock, timer, stopVars, timedOut_,
                 memoryLimitExceeded_, stopped_, processExited, exitCode_,
                 termSignal_, errorMsg_, elapsedMs_, peakMemoryBytes_, pidfd,
                 hProcess_, hJob, callerVars, jpc, result, spawnCb, pc>>

\* OnTimeoutTimerFired: the one-shot wall-clock timer.
JudgeOnTimeoutTimerFired ==
  /\ platform = "judge" /\ jpc = "run"
  /\ ctx.timeoutTimerActive /\ ~ctx.timeoutFired
  /\ clock >= JudgeWallTimeoutMs(timeoutMs_)
  /\ ctx' = [ctx EXCEPT !.timeoutFired = TRUE]
  /\ IF ~ctx.processExited
     THEN /\ result' = [result EXCEPT !.timedOut = TRUE]
          /\ child' = Killed(child)
          /\ killCause' = (IF child.state = "running" THEN "wall"
                           ELSE killCause)
     ELSE UNCHANGED <<result, child, killCause>>
  /\ UNCHANGED <<reqVars, cancelFn, clock, timer, stopVars, timedOut_,
                 memoryLimitExceeded_, stopped_, processExited, exitCode_,
                 termSignal_, errorMsg_, elapsedMs_, peakMemoryBytes_, pidfd,
                 hProcess_, hJob, callerVars, jpc, stdinState, spawnCb, pc>>

\* ReadProcessPeakMemory: the VmHWM line of /proc/<pid>/status in kB, times
\* 1024; 0 when the file or the line is not there (a zombie, a reaped pid).
ReadProcessPeakMemory(c) ==
  IF c.state = "running" THEN (c.peak \div BytesPerKB) * BytesPerKB ELSE 0

\* OnMemoryTimerTick: VmHWM of the child raises result.maxMemoryBytes.
JudgeOnMemoryTimerTick ==
  /\ platform = "judge" /\ jpc = "run"
  /\ ctx.memoryTimerActive /\ ~ctx.processExited
  /\ ReadProcessPeakMemory(child) > result.maxMemoryBytes
  /\ result' = [result EXCEPT !.maxMemoryBytes = ReadProcessPeakMemory(child)]
  /\ UNCHANGED <<reqVars, cancelFn, envVars, stopVars, flagVars, callerVars,
                 jpc, ctx, stdinState, spawnCb, pc>>

\* What OnProcessExit (POSIX build) writes into ctx->result for a child that
\* libuv has just reaped: the status, the wall-clock time, and the two flags
\* it derives from a SIGKILL.
\* An OnProcessExit whose final probe overwrites the recorded peak.
JudgeExitResultOverwrites(r, c, t, m, now) ==
  LET sig == IF c.kind = "signal" THEN c.sig ELSE 0
      mem == ReadProcessPeakMemory(c) IN
  [r EXCEPT !.exitCode = (IF c.kind = "signal" THEN 0 ELSE c.code),
            !.termSignal = sig,
            !.elapsedMs = now,
            !.maxMemoryBytes = mem,
            !.timedOut = (@ \/ (sig = SIGKILL /\ t > 0)),
            !.memoryLimitExceeded = (@ \/ (sig = SIGKILL /\ m > 0 /\ mem > m))]

JudgeExitResult(r, c, t, m, now) ==
  LET sig == IF c.kind = "signal" THEN c.sig ELSE 0
      mem == Max(r.maxMemoryBytes, ReadProcessPeakMemory(c)) IN
  [r EXCEPT !.exitCode = (IF c.kind = "signal" THEN 0 ELSE c.code),
            !.termSignal = sig,
            !.elapsedMs = now,
            !.maxMemoryBytes = mem,
            !.timedOut = (@ \/ (sig = SIGKILL /\ t > 0)),
            !.memoryLimitExceeded = (@ \/ (sig = SIGKILL /\ m > 0 /\ mem > m))]

\* How many handles OnProcessExit takes off totalHandles: those that are
\* not active or were closed before.
JudgeHandlesNotWaitedFor(cx) ==
  (IF cx.stdinAsyncActive THEN 0 ELSE 1) + (IF cx.stdinClosed THEN 1 ELSE 0)
  + (IF cx.timeoutTimerActive THEN 0 ELSE 1)
  + (IF cx.memoryTimerActive THEN 0 ELSE 1)
  + (IF cx.stdoutClosed THEN 1 ELSE 0) + (IF cx.stderrClosed THEN 1 ELSE 0)

\* OnProcessExit: libuv reaped the child and calls exit_cb, which fills the
\* result and closes every handle; the close callbacks run, uv_run returns
\* and Execute ends.
JudgeOnProcessExit ==
  /\ platform = "judge" /\ jpc = "run"
  /\ child.state = "zombie" /\ ~ctx.processExited
  /\ child' = [child EXCEPT !.state = "reaped"]
  /\ result' = JudgeExitResult(result, child, timeoutMs_, memoryLimitBytes_,
                               clock)
  /\ ctx' = [ctx EXCEPT !.processExited = TRUE,
                        !.stdinClosed = TRUE,
                        !.stdoutClosed = TRUE,
                        !.stderrClosed = TRUE,
                        !.asyncPending = FALSE,
                        !.totalHandles = @ - JudgeHandlesNotWaitedFor(ctx),
                        !.closedHandles =
                            @ + (JudgeTotalHandles
                                 - JudgeHandlesNotWaitedFor(ctx))]
  /\ jpc' = "executed"
  /\ UNCHANGED <<reqVars, cancelFn, clock, timer, stopVars, flagVars,
                 callerVars, stdinState, spawnCb, pc>>

\* The result object JudgeWorker::OnOK builds.
JudgeRecord ==
  [exitCode |-> result.exitCode,
   termSignal |-> result.termSignal,
   elapsedMs |-> result.elapsedMs,
   maxMemoryBytes |-> result.maxMemoryBytes,
   timedOut |-> result.timedOut,
   memoryLimitExceeded |-> result.memoryLimitExceeded,
   spawnError |-> result.spawnError]

\* JudgeWorker::OnOK / OnError on the JS thread: the completion callback is
\* called with (null, result), or with (error, null) after SetError; the
\* worker is then destroyed, which clears workerActive.
JudgeOnOK ==
  /\ platform = "judge" /\ jpc = "executed"
  /\ settled' = OnOKSettles(errorMsg_, settled)
  /\ delivered' = (IF errorMsg_ # "" THEN delivered ELSE JudgeRecord)
  /\ stdinState' = [stdinState EXCEPT !.workerActive = FALSE]
  /\ jpc' = "done"
  /\ UNCHANGED <<reqVars, cancelFn, envVars, stopVars, flagVars, mainPc,
                 onSpawnCalls, cancelCalls, cancelRet, signalStopRet,
                 cancelBeforeDone, ctx, result, spawnCb, pc>>

\* ------------------------------------------------------- specification
\* The child and the clock.
Environment ==
  \/ ChildRun
  \/ ChildExit
  \/ ChildSignalled
  \/ ChildCrashed
  \/ ReapedElsewhere
  \/ Tick

\* What runs on the JS thread.
Caller ==
  \/ DarwinSpawnProcess
  \/ Win32SpawnProcess
  \/ LinuxWaitForProcess
  \/ JudgeSpawnProcess
  \/ Cancel
  \/ JudgeKill
  \/ JudgeSpawnCallback
  \/ OnOK
  \/ JudgeOnOK
  \/ CollectCancel

\* What runs on the worker thread.
Worker ==
  \/ DarwinStart
  \/ DarwinArm
  \/ DarwinWake
  \/ DarwinClose
  \/ DarwinReap
  \/ Win32Start
  \/ Win32LoopTop
  \/ Win32Wake
  \/ Win32Close
  \/ Win32Reap
  \/ LinuxStart
  \/ LinuxLoopTop
  \/ LinuxWake
  \/ LinuxFallbackPoll
  \/ LinuxFallbackWake
  \/ JudgeExecuteSpawn
  \/ JudgeOnStdinAsync
  \/ JudgeOnTimeoutTimerFired
  \/ JudgeOnMemoryTimerTick
  \/ JudgeOnProcessExit

Next == Environment \/ Caller \/ Worker

Spec == Init /\ [][Next]_vars

\* Scheduling: both threads keep running (libuv's thread pool runs a queued
\* worker, the JS event loop runs a queued completion), kernel waits return
\* when they are due, and the clock advances.  Nothing is assumed of the
\* child or of the caller's cancel()/kill().
Fairness ==
  /\ WF_vars(Tick)
  /\ WF_vars(Worker)
  /\ WF_vars(OnOK)
  /\ WF_vars(JudgeOnOK)
  /\ WF_vars(JudgeSpawnCallback)

FairSpec == Init /\ [][Next]_vars /\ Fairness

\* --------------------------------------------------------- rlimit-wrapper
\* The characters a limit argument is made of: digits, a sign, white space,
\* something else.
ArgChars == {"0", "1", "-", " ", "x"}
Digits == {"0", "1", "2", "3", "4", "5", "6", "7", "8", "9"}
ArgStrings == UNION {[1..n -> ArgChars] : n \in 0..MaxArgLen}
\* argc < 4 and argc >= 4: argv[1] and argv[2] without and with a command.
Argcs == {3, 4}

DigitValue(c) ==
  CASE c = "0" -> 0 [] c = "1" -> 1 [] c = "2" -> 2 [] c = "3" -> 3
    [] c = "4" -> 4 [] c = "5" -> 5 [] c = "6" -> 6 [] c = "7" -> 7
    [] c = "8" -> 8 [] c = "9" -> 9

\* The value of the digits s[from..to-1].
RECURSIVE DecimalValue(_, _, _)
DecimalValue(s, from, to) ==
  IF to <= from THEN 0
  ELSE 10 * DecimalValue(s, from, to - 1) + DigitValue(s[to - 1])

\* strtol / strtoll(s, &endptr, 10): white space, an optional sign, digits.
\* endptr is the index of the first character not consumed, Len(s) + 1 for
\* the terminating NUL; without a digit nothing is consumed and endptr = 1.
Strtol(s) ==
  LET n == Len(s)
      i == CHOOSE x \in 1..(n + 1) :
             /\ \A j \in 1..(x - 1) : s[j] = " "
             /\ x = n + 1 \/ s[x] # " "
      signed == i <= n /\ s[i] \in {"-", "+"}
      k == IF signed THEN i + 1 ELSE i
      e == CHOOSE x \in k..(n + 1) :
             /\ \A j \in k..(x - 1) : s[j] \in Digits
             /\ x = n + 1 \/ s[x] \notin Digits
      mag == DecimalValue(s, k, e)
  IN IF e = k THEN [value |-> 0, endptr |-> 1]
     ELSE [value |-> IF signed /\ s[i] = "-" THEN 0 - mag ELSE mag,
           endptr |-> e]

\* if (*endptr != '\0' || value < 0)
WrapperRejects(s) ==
  Strtol(s).endptr <= Len(s) \/ Strtol(s).value < 0

\* (rlim_t)(memory_bytes * 1.5)
WrapperAsLimit(memory_bytes) == (memory_bytes * 3) \div 2

\* The wrapper as exec'ed: argv is given, no limit is set.
WrapperStart(argc, a1, a2) ==
  [pc |-> "main", argc |-> argc, cpuArg |-> a1, memArg |-> a2,
   cpu_seconds |-> 0, memory_bytes |-> 0, rlimitCpu |-> <<>>,
   rlimitAs |-> <<>>, status |-> <<>>]

WrapperInit ==
  /\ platform = "darwin"
  /\ timeoutMs_ = 0
  /\ memoryLimitMB = 0
  /\ memoryLimitBytes_ = 0
  /\ rlim = NoRlim
  /\ io = NoIo
  /\ Constructed
  /\ \E argc \in Argcs, a1 \in ArgStrings, a2 \in ArgStrings :
       wrapper = WrapperStart(argc, a1, a2)

WrapperOthers ==
  <<platform, timeoutMs_, memoryLimitMB, memoryLimitBytes_, rlim, io,
    envVars, stopVars, flagVars, callerVars, judgeVars, pc, cancelFn>>

\* return 1
WrapperExit(w) == [w EXCEPT !.pc = "exited", !.status = <<1>>]

\* main up to the limits: the argument count, then the two numbers.
WrapperParse ==
  /\ wrapper.pc = "main"
  /\ wrapper' =
       IF \/ wrapper.argc < 4
          \/ WrapperRejects(wrapper.cpuArg)
          \/ WrapperRejects(wrapper.memArg)
       THEN WrapperExit(wrapper)
       ELSE [wrapper EXCEPT !.pc = "cpu",
                            !.cpu_seconds = Strtol(wrapper.cpuArg).value,
                            !.memory_bytes = Strtol(wrapper.memArg).value]
  /\ UNCHANGED WrapperOthers

\* RLIMIT_CPU: set when cpu_seconds > 0; setrlimit may fail.
WrapperSetCpu ==
  /\ wrapper.pc = "cpu"
  /\ IF wrapper.cpu_seconds > 0
     THEN \/ wrapper' = [wrapper EXCEPT !.pc = "as",
                                        !.rlimitCpu = <<wrapper.cpu_seconds>>]
          \/ wrapper' = WrapperExit(wrapper)
     ELSE wrapper' = [wrapper EXCEPT !.pc = "as"]
  /\ UNCHANGED WrapperOthers

\* RLIMIT_AS: set to 1.5 times memory_bytes when that is > 0; may fail.
WrapperSetAs ==
  /\ wrapper.pc = "as"
  /\ IF wrapper.memory_bytes > 0
     THEN \/ wrapper' =
               [wrapper EXCEPT !.pc = "exec",
                               !.rlimitAs =
                                   <<WrapperAsLimit(wrapper.memory_bytes)>>]
          \/ wrapper' = WrapperExit(wrapper)
     ELSE wrapper' = [wrapper EXCEPT !.pc = "exec"]
  /\ UNCHANGED WrapperOthers

\* execvp: the target replaces the wrapper, or execvp returns and main
\* returns 1.
WrapperExec ==
  /\ wrapper.pc = "exec"
  /\ \/ wrapper' = [wrapper EXCEPT !.pc = "target"]
     \/ wrapper' = WrapperExit(wrapper)
  /\ UNCHANGED WrapperOthers

WrapperNext ==
  \/ WrapperParse
  \/ WrapperSetCpu
  \/ WrapperSetAs
  \/ WrapperExec

WrapperSpec == WrapperInit /\ [][WrapperNext]_vars

\* ------------------------------------------------- judge: RLIMIT_CPU
\* uint64_t values are four 16-bit limbs, the most significant first.
U64Base == 65536
U64Zero == <<0, 0, 0, 0>>

\* static_cast to uint64_t of the int64_t that Int64Value() returns.
U64FromInt64(n) ==
  IF n >= 0 THEN <<0, 0, 0, n>>
  ELSE <<U64Base - 1, U64Base - 1, U64Base - 1, U64Base + n>>

\* a + n in uint64_t arithmetic (n < 2^16): the carry out of the top limb
\* is lost.
U64Add(a, n) ==
  LET s4 == a[4] + n
      s3 == a[3] + (s4 \div U64Base)
      s2 == a[2] + (s3 \div U64Base)
      s1 == a[1] + (s2 \div U64Base)
  IN <<s1 % U64Base, s2 % U64Base, s3 % U64Base, s4 % U64Base>>

\* a / d and a % d in uint64_t arithmetic (d < 2^15): long division.
U64DivMod(a, d) ==
  LET q1 == a[1] \div d
      r1 == a[1] % d
      q2 == (r1 * U64Base + a[2]) \div d
      r2 == (r1 * U64Base + a[2]) % d
      q3 == (r2 * U64Base + a[3]) \div d
      r3 == (r2 * U64Base + a[3]) % d
      q4 == (r3 * U64Base + a[4]) \div d
      r4 == (r3 * U64Base + a[4]) % d
  IN [quot |-> <<q1, q2, q3, q4>>, rem |-> r4]

\* rlim.rlim_cur = (ctx_->timeoutMs + 999) / 1000
JudgeRlimitCpu(t) == U64DivMod(U64Add(t, 999), 1000).quot

\* SpawnProcess has read the timeout argument into ctx->timeoutMs and the
\* worker has spawned the child.
RlimInit ==
  /\ platform = "judge"
  /\ timeoutMs_ = 0
  /\ memoryLimitMB = 0
  /\ memoryLimitBytes_ = 0
  /\ wrapper = NoWrapper
  /\ io = NoIo
  /\ Constructed
  /\ \E n \in (0 - MaxTimeoutArg)..MaxTimeoutArg :
       rlim = [pc |-> "spawned", arg |-> n, timeoutMs |-> U64FromInt64(n),
               rlim_cur |-> <<>>]

\* Execute, after uv_spawn: if (ctx_->timeoutMs > 0) prlimit(RLIMIT_CPU).
JudgeSetRlimitCpu ==
  /\ rlim.pc = "spawned"
  /\ rlim' = [rlim EXCEPT
               !.pc = "limited",
               !.rlim_cur = IF rlim.timeoutMs # U64Zero
                            THEN <<JudgeRlimitCpu(rlim.timeoutMs)>>
                            ELSE <<>>]
  /\ UNCHANGED <<platform, timeoutMs_, memoryLimitMB, memoryLimitBytes_,
                 wrapper, io, envVars, stopVars, flagVars, callerVars,
                 judgeVars, pc, cancelFn>>

RlimNext == JudgeSetRlimitCpu

RlimSpec == RlimInit /\ [][RlimNext]_vars

\* ------------------------------------ judge.cpp: the pipes and the handles
\* A run of the judge worker followed chunk by chunk: what the caller passes
\* to writeStdin, what the child writes to stdout, and the close callback of
\* each handle of the worker's loop.
\* The pipes of a spawn whose worker has been created: nothing written,
\* nothing read, no handle closing.
IoStart ==
  [pc |-> "io",
   calls |-> 0,          \* writeStdin calls made; the n-th passes chunk n
   accepted |-> <<>>,    \* chunks passed before endStdin to an active worker
                         \* whose child had not died
   pending |-> <<>>,     \* stdinPipe's write queue: uv_write data not yet
                         \* taken by the pipe
   written |-> <<>>,     \* what the child's stdin has received
   opened |-> {},        \* handles initialised on the worker's loop
   closing |-> {},       \* uv_close called, close callback not yet run
   closeCbRun |-> {},    \* handles whose OnHandleClose has run
   completions |-> 0,    \* OnHandleClose calls at which TryComplete's
                         \* condition held
   outWritten |-> 0,     \* chunks the child wrote to stdout: 1..outWritten
   outPipe |-> <<>>,     \* written by the child, not yet read by libuv
   outQueued |-> <<>>,   \* stdoutCallback.NonBlockingCall made, not yet run
   outDelivered |-> <<>>,\* received by the JS stream callback
   stdoutCb |-> "held"]  \* stdoutCallback: "held", "released"

IoOthers ==
  <<platform, timeoutMs_, memoryLimitMB, memoryLimitBytes_, wrapper, rlim,
    clock, timer, stopVars, flagVars, onSpawnCalls, cancelCalls, cancelRet,
    signalStopRet, cancelBeforeDone, spawnCb, pc, cancelFn>>

\* SpawnProcess is about to run on the JS thread.
IoInit ==
  /\ platform = "judge"
  /\ timeoutMs_ \in {0, MaxTimeoutMs}
  /\ memoryLimitMB = 0
  /\ memoryLimitBytes_ = 0
  /\ wrapper = NoWrapper
  /\ rlim = NoRlim
  /\ io = IoStart
  /\ Constructed

\* SpawnProcess: the worker is queued and the ProcessHandle returned.
IoSpawnProcess ==
  /\ mainPc = "init"
  /\ mainPc' = "returned"
  /\ jpc' = "start"
  /\ UNCHANGED <<IoOthers, child, ctx, result, stdinState, delivered,
                 settled, io>>

\* uv_async_send from the JS thread: the handle's pending flag is set when
\* the worker has published the handle and has not closed it.
IoAsyncSend(cx, st) ==
  [cx EXCEPT !.asyncPending = (@ \/ (st.stdinAsync /\ ~cx.processExited))]

\* ProcessHandle::WriteStdin on the JS thread: ignored when the worker is
\* gone, else the data is appended to the shared buffer under the lock
\* and the async handle is signalled.
IoWriteStdin ==
  /\ mainPc = "returned"
  /\ io.calls < MaxStdinChunks
  /\ LET chunk == io.calls + 1
         covered == /\ stdinState.workerActive
                    /\ ~stdinState.closed
                    /\ child.state \in {"none", "running"} IN
       /\ io' = [io EXCEPT !.calls = chunk,
                           !.accepted = IF covered THEN Append(@, chunk)
                                        ELSE @]
       /\ IF stdinState.workerActive
          THEN /\ stdinState' = [stdinState EXCEPT
                                   !.buffer = Append(@, chunk)]
               /\ ctx' = IoAsyncSend(ctx, stdinState)
          ELSE UNCHANGED <<stdinState, ctx>>
  /\ UNCHANGED <<IoOthers, mainPc, child, jpc, result, delivered, settled>>

\* ProcessHandle::EndStdin on the JS thread.
IoEndStdin ==
  /\ mainPc = "returned"
  /\ ~stdinState.closed
  /\ stdinState.workerActive
  /\ stdinState' = [stdinState EXCEPT !.closed = TRUE]
  /\ ctx' = IoAsyncSend(ctx, stdinState)
  /\ UNCHANGED <<IoOthers, mainPc, child, jpc, result, delivered, settled,
                 io>>

\* ProcessHandle::Kill on the JS thread.
IoKill ==
  /\ mainPc = "returned"
  /\ ~stdinState.killRequested
  /\ stdinState.workerActive
  /\ stdinState' = [stdinState EXCEPT !.killRequested = TRUE]
  /\ ctx' = IoAsyncSend(ctx, stdinState)
  /\ UNCHANGED <<IoOthers, mainPc, child, jpc, result, delivered, settled,
                 io>>

\* uv_write on stdinPipe: with an empty write queue libuv writes at once as
\* much as the pipe takes and queues the rest; behind queued data the
\* request is queued whole. A chunk counts as written once the pipe has
\* taken all of it: the first k chunks here.
UvWrite(i, data, k) ==
  IF i.pending = <<>>
  THEN [i EXCEPT !.written = @ \o SubSeq(data, 1, k),
                 !.pending = SubSeq(data, k + 1, Len(data))]
  ELSE [i EXCEPT !.pending = @ \o data]

\* uv_close on a handle of the loop: its close callback is owed; closing
\* stdinPipe cancels the write requests still queued on it (UV_ECANCELED,
\* which OnStdinWrite does not look at).
UvClose(i, h) ==
  [i EXCEPT !.closing = @ \cup {h},
            !.pending = IF h = "stdin" THEN <<>> ELSE @]

\* JudgeWorker::Execute up to the first lock block: uv_spawn (a failure is
\* recorded and Execute returns), the timers, uv_read_start on both pipes,
\* the async handle is initialised and published to the JS thread.
IoExecuteSpawn ==
  /\ jpc = "start"
  /\ \/ /\ result' = [result EXCEPT !.spawnError = TRUE]
        /\ jpc' = "executed"
        /\ io' = [io EXCEPT !.stdoutCb = "released"]
        /\ UNCHANGED <<child, ctx, stdinState>>
     \/ /\ child' = LiveChild
        /\ ctx' = [ctx EXCEPT !.timeoutTimerActive = (timeoutMs_ > 0),
                              !.memoryTimerActive = TRUE,
                              !.stdinAsyncActive = TRUE]
        /\ io' = [io EXCEPT !.opened =
                    {"process", "stdin", "stdout", "stderr", "memoryTimer",
                     "stdinAsync"}
                    \cup (IF timeoutMs_ > 0 THEN {"timeoutTimer"} ELSE {})]
        /\ stdinState' = [stdinState EXCEPT !.stdinAsync = TRUE]
        /\ jpc' = "drain"
        /\ UNCHANGED result
  /\ UNCHANGED <<IoOthers, mainPc, delivered, settled>>

\* JudgeWorker::Execute from the second lock block to uv_run: the buffer
\* and the closed flag are taken under the lock, buffered data is written,
\* stdin is closed if endStdin came before, totalHandles is set.
IoExecuteDrain ==
  /\ jpc = "drain"
  /\ \E k \in 0..Len(stdinState.buffer) :
       LET wrote == IF stdinState.buffer # <<>>
                    THEN UvWrite(io, stdinState.buffer, k) ELSE io IN
       io' = IF stdinState.closed THEN UvClose(wrote, "stdin") ELSE wrote
  /\ stdinState' = [stdinState EXCEPT !.buffer = <<>>]
  /\ ctx' = [ctx EXCEPT !.stdinClosed = stdinState.closed,
                        !.totalHandles = JudgeTotalHandles]
  /\ jpc' = "run"
  /\ UNCHANGED <<IoOthers, mainPc, child, result, delivered, settled>>

\* OnStdinAsync on the worker's loop: the buffer and both flags are taken
\* under the lock; a kill request kills and returns, else the data is
\* written unless stdin is closed, and stdin is closed on request.
IoOnStdinAsync ==
  /\ jpc = "run" /\ ctx.asyncPending /\ ~ctx.processExited
  /\ stdinState' = [stdinState EXCEPT !.buffer = <<>>]
  /\ IF stdinState.killRequested
     THEN /\ child' = Killed(child)
          /\ ctx' = [ctx EXCEPT !.asyncPending = FALSE]
          /\ UNCHANGED io
     ELSE /\ \E k \in 0..Len(stdinState.buffer) :
               LET wrote == IF stdinState.buffer # <<>> /\ ~ctx.stdinClosed
                            THEN UvWrite(io, stdinState.buffer, k) ELSE io IN
               io' = IF stdinState.closed /\ ~ctx.stdinClosed
                     THEN UvClose(wrote, "stdin") ELSE wrote
          /\ ctx' = [ctx EXCEPT !.asyncPending = FALSE,
                                !.stdinClosed = (@ \/ stdinState.closed)]
          /\ UNCHANGED child
  /\ UNCHANGED <<IoOthers, mainPc, jpc, result, delivered, settled>>

\* The pipe takes the next queued chunk: libuv's write watcher fires.
IoStdinWritable ==
  /\ jpc = "run" /\ io.pending # <<>>
  /\ child.state = "running"
  /\ io' = [io EXCEPT !.written = Append(@, Head(io.pending)),
                      !.pending = Tail(@)]
  /\ UNCHANGED <<IoOthers, mainPc, child, jpc, ctx, result, stdinState,
                 delivered, settled>>

\* The child writes a chunk to its stdout.
IoChildWrites ==
  /\ child.state = "running"
  /\ io.outWritten < MaxStdoutChunks
  /\ io' = [io EXCEPT !.outWritten = @ + 1,
                      !.outPipe = Append(@, io.outWritten + 1)]
  /\ UNCHANGED <<IoOthers, mainPc, child, jpc, ctx, result, stdinState,
                 delivered, settled>>

\* OnStdoutRead on the worker's loop: data is handed to the stream callback
\* with NonBlockingCall; end of file (the child is gone and the pipe is
\* empty) closes the handle unless it is closed already.
IoOnStdoutRead ==
  /\ jpc = "run" /\ ~ctx.stdoutClosed
  /\ IF io.outPipe # <<>>
     THEN /\ io' = [io EXCEPT !.outPipe = Tail(@),
                              !.outQueued = Append(@, Head(io.outPipe))]
          /\ UNCHANGED ctx
     ELSE /\ child.state # "running"
          /\ ctx' = [ctx EXCEPT !.stdoutClosed = TRUE]
          /\ io' = UvClose(io, "stdout")
  /\ UNCHANGED <<IoOthers, mainPc, child, jpc, result, stdinState, delivered,
                 settled>>

\* OnStderrRead at end of file (the child writes nothing to stderr here).
IoOnStderrRead ==
  /\ jpc = "run" /\ ~ctx.stderrClosed
  /\ child.state # "running"
  /\ ctx' = [ctx EXCEPT !.stderrClosed = TRUE]
  /\ io' = UvClose(io, "stderr")
  /\ UNCHANGED <<IoOthers, mainPc, child, jpc, result, stdinState, delivered,
                 settled>>

\* The handles OnProcessExit calls uv_close on: the process, and every
\* other handle that is active and was not closed before.
JudgeExitCloses(cx) ==
  {"process"}
  \cup (IF cx.stdinAsyncActive THEN {"stdinAsync"} ELSE {})
  \cup (IF ~cx.stdinClosed THEN {"stdin"} ELSE {})
  \cup (IF cx.timeoutTimerActive THEN {"timeoutTimer"} ELSE {})
  \cup (IF cx.memoryTimerActive THEN {"memoryTimer"} ELSE {})
  \cup (IF ~cx.stdoutClosed THEN {"stdout"} ELSE {})
  \cup (IF ~cx.stderrClosed THEN {"stderr"} ELSE {})

\* OnProcessExit on the worker's loop: the result is filled, every handle
\* is closed or taken off totalHandles, the stream callbacks are released.
\* What the child wrote and libuv has not read stays in the closed pipe.
IoOnProcessExit ==
  /\ jpc = "run"
  /\ child.state = "zombie" /\ ~ctx.processExited
  /\ child' = [child EXCEPT !.state = "reaped"]
  /\ result' = JudgeExitResult(result, child, timeoutMs_, memoryLimitBytes_,
                               clock)
  /\ ctx' = [ctx EXCEPT !.processExited = TRUE,
                        !.stdinClosed = TRUE,
                        !.stdoutClosed = TRUE,
                        !.stderrClosed = TRUE,
                        !.asyncPending = FALSE,
                        !.totalHandles = @ - JudgeHandlesNotWaitedFor(ctx)]
  /\ io' = [io EXCEPT !.closing = @ \cup JudgeExitCloses(ctx),
                      !.pending = <<>>,
                      !.stdoutCb = "released"]
  /\ UNCHANGED <<IoOthers, mainPc, jpc, stdinState, delivered, settled>>

\* TryComplete's condition.
TryCompleteCondition(cx) ==
  cx.closedHandles >= cx.totalHandles /\ cx.processExited

\* OnHandleClose on the worker's loop, for one of the handles whose close
\* is owed: closedHandles++ and TryComplete.
IoOnHandleClose ==
  /\ jpc = "run"
  /\ \E h \in io.closing :
       LET after == [ctx EXCEPT !.closedHandles = @ + 1] IN
       /\ ctx' = after
       /\ io' = [io EXCEPT !.closing = @ \ {h},
                           !.closeCbRun = @ \cup {h},
                           !.completions =
                              IF TryCompleteCondition(after) THEN @ + 1
                              ELSE @]
  /\ UNCHANGED <<IoOthers, mainPc, child, jpc, result, stdinState, delivered,
                 settled>>

\* uv_run returns once the loop has no handle left, the loop is closed and
\* freed, Execute ends.
IoRunReturns ==
  /\ jpc = "run"
  /\ ctx.processExited /\ io.closing = {}
  /\ jpc' = "executed"
  /\ UNCHANGED <<IoOthers, mainPc, child, ctx, result, stdinState, delivered,
                 settled, io>>

\* The JS thread runs the next queued call of the stdout stream callback.
IoStreamCallback ==
  /\ io.outQueued # <<>>
  /\ io' = [io EXCEPT !.outQueued = Tail(@),
                      !.outDelivered = Append(@, Head(io.outQueued))]
  /\ UNCHANGED <<IoOthers, mainPc, child, jpc, ctx, result, stdinState,
                 delivered, settled>>

\* JudgeWorker::OnOK on the JS thread, then ~JudgeWorker.
IoOnOK ==
  /\ jpc = "executed"
  /\ settled' = OnOKSettles(errorMsg_, settled)
  /\ delivered' = JudgeRecord
  /\ stdinState' = [stdinState EXCEPT !.workerActive = FALSE]
  /\ jpc' = "done"
  /\ UNCHANGED <<IoOthers, mainPc, child, ctx, result, io>>

IoNext ==
  \/ IoSpawnProcess
  \/ IoWriteStdin
  \/ IoEndStdin
  \/ IoKill
  \/ IoExecuteSpawn
  \/ IoExecuteDrain
  \/ IoOnStdinAsync
  \/ IoStdinWritable
  \/ IoChildWrites
  \/ ChildExit
  \/ IoOnStdoutRead
  \/ IoOnStderrRead
  \/ IoOnProcessExit
  \/ IoOnHandleClose
  \/ IoRunReturns
  \/ IoStreamCallback
  \/ IoOnOK

JudgeIoSpec == IoInit /\ [][IoNext]_vars

\* ---------------------------------------------------------------- claims
\* The back-ends whose handle carries cancel().
Cancellable == platform \in {"darwin", "win32"}

\* C1: every cancel() returns true exactly when, at the moment of the call,
\* the monitor loop has not yet left Watching (and false once it has).
C1_CancelTrueIffWatching ==
  [][Cancel => ((cancelRet' = "true") <=> ~LeftWatching)]_vars

\* C2: a cancel() made after spawn returned and before the monitor completed
\* is eventually followed by the result being yielded (which the claimed
\* stopped = true record needs), whether or not the wait was armed yet.
C2_CancelEventuallyYields ==
  (Cancellable /\ cancelBeforeDone) ~> (pc = "done")

\* The child's exit and a cancel() are both pending at this wake-up.
ExitAndCancelPending ==
  /\ pc = "wait"
  /\ \/ /\ platform = "darwin"
        /\ \E i \in 1..Len(kq.events) : kq.events[i] = "PROC"
        /\ \E i \in 1..Len(kq.events) : kq.events[i] = "USER"
     \/ /\ platform = "win32"
        /\ child.state # "running" /\ hStopEvent = "set"

\* C3: when the child's own exit and a cancel() are both pending at the same
\* wake-up of the monitor loop, the loop leaves for the exit: stopped stays
\* false.
C3_ExitBeatsCancel ==
  [][(ExitAndCancelPending /\ pc' = "close") => ~stopped_']_vars

\* The cause flags of a Completion Record that are true.
CauseFlags(rec) ==
  {f \in {"timedOut", "memoryLimitExceeded", "stopped"} : rec[f]}

\* A monitor back-end has yielded a Completion Record.
MonitorYielded == platform \in MonitorBackends /\ delivered # NoRecord

\* C4: in every Completion Record of a monitor back-end at most one of
\* timed_out, memory_limit_exceeded and stopped is true.
C4_AtMostOneCause == MonitorYielded => Cardinality(CauseFlags(delivered)) <= 1

\* C5: the stopped field of a Completion Record is true exactly when the
\* monitor terminated the child because of a cancel() request.
C5_StoppedIffCancelled ==
  MonitorYielded => (delivered.stopped <=> killCause = "cancel")

\* C6: a child that was killed by an explicit kill() is never reported with
\* timed_out = true (stated for the judge.cpp result).
C6_KilledIsNotTimedOut ==
  (platform = "judge" /\ delivered # NoRecord /\ killCause = "cancel")
    => ~delivered.timedOut

\* C7: for every spawn with a non-zero CPU-time limit that returned a handle,
\* whatever the child does, the monitor eventually reaches Done (its result
\* is settled): the loop never runs forever.
C7_MonitorTerminates ==
  (platform \in MonitorBackends /\ mainPc = "returned" /\ timeoutMs_ > 0)
    ~> (pc = "done" /\ settled.resolved + settled.rejected = 1)

\* C7 witness: a child that never exits was ended by the wall-clock safety
\* net and the result was yielded.
C7_Witness ==
  /\ platform \in MonitorBackends /\ timeoutMs_ > 0
  /\ pc = "done" /\ killCause = "wall" /\ delivered # NoRecord
  /\ child.cpu = 0

\* C8: no result is ever delivered from the worker side with
\* spawn_error = true.
C8_NoSpawnErrorResult ==
  (platform = "judge" /\ delivered # NoRecord) => ~delivered.spawnError

\* The spawn did not launch a child: SpawnProcess threw, or uv_spawn failed.
SpawnFailed ==
  \/ mainPc \in {"threwInvalidRequest", "threwSpawnFailed"}
  \/ result.spawnError

\* The loop has been through a wait: a monitor is in or past its first wait,
\* the judge's uv_run has returned after the child's exit.
LoopHasWaited ==
  \/ Cancellable /\ pc \in {"wait", "close", "reap", "executed", "done"}
  \/ platform = "judge" /\ jpc = "executed" /\ child.state # "none"

SettleCount == settled.resolved + settled.rejected

\* C10: for every spawn that returned a handle the result is settled at most
\* once, never both ways, and exactly once by the time the worker is done,
\* on every path through the worker, error returns included; a Completion
\* Record is what a resolved result carries.
C10_SettledExactlyOnce ==
  /\ SettleCount <= 1
  /\ Finished <=> SettleCount = 1
  /\ delivered # NoRecord <=> settled.resolved = 1
  /\ mainPc # "returned" => SettleCount = 0

\* C10 witness: an error return in the middle of the loop ended in exactly
\* one rejection.
C10_Witness ==
  /\ pc = "done" /\ errorMsg_ = "kevent failed: "
  /\ settled = [resolved |-> 0, rejected |-> 1]
  /\ delivered = NoRecord

\* The child ended by returning from main / calling exit, and the monitor
\* had not decided to terminate it.
ExitedNormally ==
  child.kind = "exit" /\ child.code \in ExitCodes /\ killCause = "none"

\* The exit_code of a delivered record is null.  judge.cpp's record always
\* carries a number.
ExitCodeIsNull(rec) == platform \in MonitorBackends /\ rec.exitCode = <<>>

\* The record carries a termination signal or code.  Only judge.cpp's
\* record has such a field.
TermInfoSet(rec) == platform = "judge" /\ rec.termSignal > 0

\* A record was yielded for a child that was launched.
YieldedForChild ==
  delivered # NoRecord /\ child.state # "none"

\* C11: every Completion Record satisfies exactly one of (a) the child
\* exited normally and exit_code is an integer, (b) exit_code is null and
\* the record carries term_signal or term_code.
C11_ExitCodeXorTermination ==
  YieldedForChild =>
    ((ExitedNormally /\ ~ExitCodeIsNull(delivered))
       # (ExitCodeIsNull(delivered) /\ TermInfoSet(delivered)))

\* The exit_code number of a delivered record, <<>> when it is null.
ReportedExitCode(rec) ==
  IF platform = "judge" THEN <<rec.exitCode>> ELSE rec.exitCode

\* C12: a child that exits normally with status k yields a Completion
\* Record with exit_code = k.
C12_ExitCodeRoundTrip ==
  (YieldedForChild /\ ExitedNormally)
    => ReportedExitCode(delivered) = <<child.code>>

\* The monitor decided to terminate the child and the child's end is the
\* one its kill produces: SIGKILL, or on win32 TerminateProcess's code.
MonitorTerminatedChild ==
  /\ killCause # "none"
  /\ IF platform = "win32"
     THEN child.kind = "exit" /\ child.code = TerminateExitCode
     ELSE child.kind = "signal" /\ child.sig = SIGKILL

\* C13: whenever the monitor itself terminated the child (cancel, CPU
\* time, wall clock or memory), the Completion Record has exit_code = null.
C13_MonitorKillReportsNull ==
  (YieldedForChild /\ MonitorTerminatedChild)
    => ReportedExitCode(delivered) = <<>>

\* C14: once the worker has finished (a record or an error was yielded),
\* every later cancel() is a no-op: SignalStop returns false and fires
\* neither the kqueue trigger nor the stop event.
C14_CancelAfterDoneIsNoOp ==
  [][(Cancel /\ pc = "done")
       => (signalStopRet' = "false" /\ UNCHANGED <<kq, hStopEvent>>)]_vars

\* A stop request is pending for the worker to observe.
StopPending ==
  \/ platform = "darwin" /\ \E i \in 1..Len(kq.events) : kq.events[i] = "USER"
  \/ platform = "win32" /\ hStopEvent = "set"

C16_ZeroMeansNoLimit ==
  /\ timeoutMs_ = 0 =>
       /\ killCause \notin {"cpu", "wall"}
       /\ delivered # NoRecord => ~delivered.timedOut
  /\ memoryLimitBytes_ = 0 =>
       /\ killCause # "memory"
       /\ delivered # NoRecord => ~delivered.memoryLimitExceeded

\* C17: every record yielded under a non-zero CPU-time limit L has
\* elapsed_cpu_ms <= L or timed_out = true.
C17_OverCpuLimitIsTimedOut ==
  (delivered # NoRecord /\ timeoutMs_ > 0)
    => (delivered.elapsedMs <= timeoutMs_ \/ delivered.timedOut)

\* C18: every record yielded under a non-zero memory limit M has
\* peak_memory_bytes <= M or memory_limit_exceeded = true.
C18_OverMemoryLimitIsFlagged ==
  (delivered # NoRecord /\ memoryLimitBytes_ > 0)
    => \/ delivered.memoryLimitExceeded
       \/ (IF platform = "judge" THEN delivered.maxMemoryBytes
           ELSE delivered.peakMemoryBytes) <= memoryLimitBytes_

\* No job object, pidfd, process handle, kqueue or stop event of the
\* monitor is open.
NothingOpen ==
  /\ hJob # "open" /\ pidfd # "open" /\ hProcess_ # "open"
  /\ ~kq.valid /\ hStopEvent = "null"

\* C19: when the Completion Record is yielded to the caller (the promise
\* is resolved and the worker destroyed), every handle, descriptor, job
\* object and kernel-event queue of the monitor has already been released.
C19_ReleasedBeforeYield ==
  [][(OnOK /\ delivered' # NoRecord) => NothingOpen']_vars

C21_ThresholdIsRequestValue ==
  (/\ platform = "darwin"
   /\ delivered # NoRecord
   /\ memoryLimitMB > 0
   /\ delivered.peakMemoryBytes > memoryLimitMB)
    => delivered.memoryLimitExceeded

\* The child is gone from the process table while the monitor is still at
\* work: somebody else reaped it, the monitor's own wait4 can no longer.
ReapedByOther ==
  /\ platform \in {"darwin", "linux"}
  /\ child.state = "reaped"
  /\ pc \in {"start", "arm", "loop", "wait", "close", "reap"}

\* C22: when the child cannot be reaped by the monitor (it was reaped
\* elsewhere), the monitor loop still terminates: Execute returns.
C22_UnreapableChildTerminates ==
  ReapedByOther ~> pc \in {"executed", "done"}

\* The worker is about to arm its wait and the child has already exited.
ExitedBeforeArm ==
  platform \in MonitorBackends /\ pc = "start" /\ child.state = "zombie"

\* Failures of the monitor's own resources, which an early exit does not
\* cause: a handle, queue or job object that could not be set up, or a wait
\* primitive that failed.
ResourceFailure ==
  errorMsg_ \in {"Failed to create kqueue (in shared state)",
                 "Failed to register events with kqueue: ",
                 "Invalid process handle",
                 "Failed to create stop event (in shared state): ",
                 "Failed to create job object: ",
                 "Failed to set job object limits: ",
                 "Failed to get initial process times: ",
                 "Failed to get final process times: ",
                 "Failed to get exit code: ",
                 "WaitForMultipleObjects failed: ",
                 "poll failed: "}

\* A Completion Record with the exit status and statistics of the child.
RecordOfChild ==
  /\ delivered # NoRecord
  /\ ExitedNormally => ReportedExitCode(delivered) = <<child.code>>
  /\ delivered.elapsedMs = child.cpu

C24_PeakNeverDecreases ==
  [][platform = "judge" =>
       /\ result.maxMemoryBytes >= 0
       /\ result'.maxMemoryBytes >= result.maxMemoryBytes
       /\ (delivered' # NoRecord /\ ~result'.spawnError)
            => delivered'.maxMemoryBytes = result'.maxMemoryBytes]_vars

\* A timer probe recorded the highest level, and the exit callback's final
\* probe (which finds no /proc entry any more) has run.
C24_Witness ==
  /\ platform = "judge" /\ jpc = "executed" /\ ctx.processExited
  /\ child.state = "reaped"
  /\ result.maxMemoryBytes = MaxMemoryLimitMB * BYTES_PER_MEGABYTE + BytesPerKB

\* A decimal number written out: white space and a sign may lead, at least
\* one digit follows, nothing else does.
IsNumeral(s) ==
  \E k \in 1..Len(s) :
    /\ \A j \in k..Len(s) : s[j] \in Digits
    /\ \A j \in 1..(k - 1) :
         s[j] = " " \/ (j = k - 1 /\ s[j] \in {"-", "+"})

\* A valid limit argument: a number that is not negative.
ValidLimit(s) == IsNumeral(s) /\ Strtol(s).value >= 0

\* C25: rlimit-wrapper executes the target only if it has three arguments
\* or more, both limits are non-negative numbers and every non-zero limit
\* was set; otherwise it exits with status 1 without running the target;
\* a limit of 0 leaves that limit unset.
C25_WrapperRunsOnlyIfValid ==
  /\ wrapper.pc = "target" =>
       /\ wrapper.argc >= 4
       /\ ValidLimit(wrapper.cpuArg) /\ ValidLimit(wrapper.memArg)
       /\ wrapper.cpu_seconds > 0 => wrapper.rlimitCpu # <<>>
       /\ wrapper.memory_bytes > 0 => wrapper.rlimitAs # <<>>
       /\ wrapper.cpu_seconds = 0 => wrapper.rlimitCpu = <<>>
       /\ wrapper.memory_bytes = 0 => wrapper.rlimitAs = <<>>
  /\ wrapper.pc = "exited" => wrapper.status = <<1>>

\* A poll tick: the timed wait of a darwin or win32 monitor ran out with the
\* child alive and nothing signalled, and the wait did not fail.
PollTick ==
  /\ \/ DarwinWake /\ kq.events = <<>>
     \/ Win32Wake /\ hStopEvent # "set"
  /\ timer = 0 /\ child.state = "running"
  /\ errorMsg_' = ""

\* The child is over both limits of its request.
BothExceeded ==
  /\ memoryLimitBytes_ > 0 /\ child.rss > memoryLimitBytes_
  /\ timeoutMs_ > 0 /\ child.cpu > timeoutMs_

\* C26 as stated: on a poll tick memory is checked before CPU time; a child
\* over both limits on the same tick is flagged memory_limit_exceeded and
\* not timed_out.
C26_MemoryBeforeCpu ==
  [][(PollTick /\ BothExceeded) =>
       (memoryLimitExceeded_' /\ ~timedOut_' /\ killCause' = "memory")]_vars

\* C27: for a non-zero CPU-time limit L the monitor kills the child for
\* wall-clock reasons only once the elapsed wall-clock time has passed
\* 2 x L, never earlier (checked in its weakest reading: not before 2 x L
\* has elapsed).
C27_WallKillNotBeforeTwiceLimit ==
  [][(killCause # "wall" /\ killCause' = "wall") =>
       (timeoutMs_ > 0 /\ clock >= 2 * timeoutMs_)]_vars

\* The loop enters its kernel wait (kevent, poll, usleep or
\* WaitForMultipleObjects) with a running child and nothing to wake it.
EntersWaitIdle ==
  /\ platform \in MonitorBackends
  /\ pc = "loop" /\ pc' = "wait"
  /\ child.state = "running"
  /\ kq.events = <<>> /\ hStopEvent # "set"

\* C28: while the child runs and no event is pending, every iteration of
\* the loop blocks for a strictly positive time: the loop never spins.
C28_EveryWaitBlocks ==
  [][EntersWaitIdle => timer' > 0]_vars

\* The child's status is the one a kill by the monitor leaves: SIGKILL, or
\* the exit code of TerminateProcess.
DiedByMonitor(c) ==
  IF platform = "win32" THEN c.kind = "exit" /\ c.code = TerminateExitCode
  ELSE c.kind = "signal" /\ c.sig = SIGKILL

\* C29: whenever the monitor decides in the loop to terminate the child, the
\* kill is issued before the blocking reap: the code after the loop is
\* reached with a live child only when the kill is still to be issued there
\* (stopped_ is set), and a step that reaps a child that was alive (Execute
\* ends without an error) has killed it first.
C29_KillBeforeBlockingReap ==
  [][/\ (platform \in MonitorBackends /\ pc' = "reap"
         /\ child'.state = "running")
        => (stopped_' /\ killCause' # "none")
     /\ (platform \in MonitorBackends /\ pc # "executed"
         /\ pc' = "executed" /\ errorMsg_' = ""
         /\ child.state = "running")
        => (killCause' # "none" /\ child'.state # "running"
            /\ DiedByMonitor(child'))]_vars

\* win32: the loop decided on the CPU limit with the child alive; the code
\* after the loop terminated it and waited for its death.
C29_Witness ==
  /\ platform = "win32" /\ pc = "executed" /\ errorMsg_ = ""
  /\ killCause = "cpu" /\ stopped_ /\ ~processExited
  /\ child.state = "zombie" /\ DiedByMonitor(child)

\* The wait primitive (kevent, poll, WaitForMultipleObjects) failed with an
\* unexpected error.
WaitFailed ==
  errorMsg_ \in {"kevent failed: ", "poll failed: ",
                 "WaitForMultipleObjects failed: "}

\* kevent or poll comes back before its time with nothing to report and
\* without an unexpected error: it was interrupted (EINTR).
InterruptedWait ==
  /\ DarwinWake \/ LinuxWake
  /\ timer > 0 /\ child.state = "running"
  /\ kq.events = <<>> /\ pidfd # "closed"
  /\ errorMsg_' = ""

\* C30: an unexpected failure of the wait primitive aborts the loop at once
\* and the result yields an error instead of a Completion Record; an
\* interrupted wait never aborts the loop (it goes round, or ends on a limit
\* the same iteration finds exceeded).
C30_WaitFailureYieldsError ==
  [][/\ (errorMsg_ = "" /\ WaitFailed')
        => (pc = "wait" /\ pc' = "executed")
     /\ WaitFailed' => delivered' = NoRecord
     /\ (WaitFailed' /\ pc' = "done")
        => (settled'.rejected = 1 /\ settled'.resolved = 0)
     /\ InterruptedWait
        => (pc' = "loop" \/ (pc' = "executed" /\ killCause' = "memory"))]_vars

\* The wait failed with the child alive, and the caller got the rejection.
C30_Witness ==
  /\ WaitFailed /\ pc = "done" /\ child.state = "running"
  /\ settled.rejected = 1 /\ delivered = NoRecord

\* Execute ends on a reap that cannot return the child's usage: the child
\* was reaped before the step, and the step is not the failure of a wait
\* primitive or of the kqueue set-up.
FinalReapFails ==
  /\ platform \in {"darwin", "linux"}
  /\ pc \in {"loop", "wait", "reap"} /\ pc' = "executed"
  /\ child.state = "reaped"
  /\ errorMsg_' \notin {"kevent failed: ", "poll failed: "}

\* C31: when the final reap fails to return resource usage, the monitor
\* proceeds with zeroed usage (elapsed CPU 0, peak memory 0) and still
\* yields a Completion Record: no error, no undefined values.
C31_FailedReapZeroedUsage ==
  [][FinalReapFails =>
       (errorMsg_' = "" /\ elapsedMs_' = 0 /\ peakMemoryBytes_' = 0)]_vars

\* The child died by SIGXCPU and the back-end's own reap returned that
\* status (somebody else's reap would have left it unseen).
SawSIGXCPU ==
  /\ child.kind = "signal" /\ child.sig = SIGXCPU
  /\ CASE platform = "darwin" -> termSignal_ = SIGXCPU
       [] platform = "linux" -> exitCode_ = 128 + SIGXCPU
       [] platform = "judge" -> result.termSignal = SIGXCPU
       [] OTHER -> FALSE

\* C32: a child whose termination signal is SIGXCPU is classified with
\* timed_out = true and exit_code = null, whatever the loop had flagged.
C32_SIGXCPUIsTimedOut ==
  (delivered # NoRecord /\ SawSIGXCPU)
    => (delivered.timedOut /\ ReportedExitCode(delivered) = <<>>)

\* The child died by a SIGKILL that the monitor did not send (it had set no
\* cause flag), and the back-end's own reap returned that status.
ExternalSIGKILL ==
  /\ child.kind = "signal" /\ child.sig = SIGKILL /\ killCause = "none"
  /\ \/ platform = "darwin" /\ termSignal_ = SIGKILL
     \/ platform = "judge" /\ result.termSignal = SIGKILL

\* Within 90% of the limit.
NearCpuLimit == timeoutMs_ > 0 /\ child.cpu * 10 >= timeoutMs_ * 9
NearMemoryLimit ==
  memoryLimitBytes_ > 0 /\ child.peak * 10 >= memoryLimitBytes_ * 9

\* C33: a child that died by SIGKILL with no cause flag set by the monitor
\* is attributed to timed_out when its CPU time is within 90% of the CPU
\* limit, else to memory_limit_exceeded when its peak memory is within 90%
\* of the memory limit, else to nothing: the flags stay false.
C33_SIGKILLAttribution ==
  (delivered # NoRecord /\ ExternalSIGKILL) =>
    IF NearCpuLimit THEN delivered.timedOut
    ELSE IF NearMemoryLimit
    THEN delivered.memoryLimitExceeded /\ ~delivered.timedOut
    ELSE ~delivered.timedOut /\ ~delivered.memoryLimitExceeded

\* The smallest whole number of seconds s with s x 1000 >= t: the quotient
\* of t by 1000, and one more when a remainder is left.
CeilingSeconds(t) ==
  LET d == U64DivMod(t, 1000) IN U64Add(d.quot, IF d.rem > 0 THEN 1 ELSE 0)

\* C34: for every non-zero CPU-time limit t (ms) that ctx->timeoutMs can
\* hold, the RLIMIT_CPU set on the child is the ceiling of t / 1000, with
\* no wrap-around.
C34_RlimitCpuIsCeiling ==
  (rlim.pc = "limited" /\ rlim.timeoutMs # U64Zero)
    => rlim.rlim_cur = <<CeilingSeconds(rlim.timeoutMs)>>

\* kill() was called on the ProcessHandle while the worker was active, and
\* the child is alive.
KillRequestedOfLiveChild ==
  /\ platform = "judge"
  /\ stdinState.killRequested /\ child.state = "running"

\* C35: every kill() issued while the child is (or will be) alive is
\* eventually followed by the child's death, a kill() issued before the
\* worker spawned the child and published its async handle included.
C35_KillEventuallyKills ==
  KillRequestedOfLiveChild ~> child.state # "running"

\* The worker's async handle has been closed: the exit callback called
\* uv_close on it (and, uv_run having returned, Execute freed the loop).
AsyncHandleClosed ==
  platform = "judge" /\ ctx.processExited /\ ctx.stdinAsyncActive

\* The ProcessHandle would signal the handle: the worker counts as active
\* and the shared stdinAsync pointer refers to the handle.
WouldSignalAsync == stdinState.workerActive /\ stdinState.stdinAsync

\* C36: no call on the ProcessHandle signals the async handle after it was
\* closed or its loop freed: whenever the handle is closed, workerActive is
\* false or the shared pointer no longer refers to it.
C36_NoSignalAfterClose ==
  [][(JudgeKill /\ AsyncHandleClosed) => ~WouldSignalAsync]_vars

\* A step of the linux pidfd loop that calls close(pidfd): the wall-clock
\* branch, the POLLIN branch, the poll-failure branch, the memory branch.
ClosesPidfd ==
  /\ platform = "linux" /\ pidfd # "none"
  /\ \/ LinuxLoopTop /\ pc' = "executed"
     \/ LinuxWake /\ (pc' = "executed" \/ pidfd # pidfd')

\* C38: on every path through the linux loop the pidfd is closed exactly
\* once: it is not closed again once closed, and it is not passed to poll
\* after it has been closed.
C38_PidfdClosedOnce ==
  [][(platform = "linux" /\ pidfd = "closed")
       => (~ClosesPidfd /\ ~(LinuxLoopTop /\ pc' = "wait"))]_vars

\* The chunks the claim covers lead the stream to the child's stdin (what
\* is written, queued on the pipe or in the shared buffer), once each and
\* in call order; what was passed after endStdin can only follow them.
StdinInOrder ==
  LET stream == io.written \o io.pending \o stdinState.buffer IN
  /\ Len(stream) >= Len(io.accepted)
  /\ SubSeq(stream, 1, Len(io.accepted)) = io.accepted

\* C37: while the child is alive and no kill was asked for, the chunks
\* passed to writeStdin before endStdin are, in call order and once each,
\* written to the child's stdin or still on their way to it.
C37_StdinChunksOnceInOrder ==
  (io.pc = "io" /\ child.state = "running" /\ ~stdinState.killRequested)
    => StdinInOrder

\* The chunks the child has written to stdout, in order.
StdoutOfChild == [n \in 1..io.outWritten |-> n]

\* C39: when the result is reported every chunk the child wrote to stdout
\* has been handed to the stream callback (run, or queued for the JS
\* thread by NonBlockingCall): the exit callback discards no unread output.
C39_OutputBeforeResult ==
  (io.pc = "io" /\ jpc = "done" /\ ~result.spawnError)
    => io.outDelivered \o io.outQueued = StdoutOfChild

\* C40: TryComplete's condition holds only when the close callback of every
\* opened handle has run, and it holds at no more than one OnHandleClose
\* call.
C40_CompletionOnceAfterAllClosed ==
  io.pc = "io" =>
    /\ TryCompleteCondition(ctx) => io.opened \subseteq io.closeCbRun
    /\ io.completions <= 1

=============================================================================
